---------------------------- MODULE Spec2Model ----------------------------
(***************************************************************************)
(* A model of patchbay's SCPI command compiler (patchbay/hardware/scpi.py) *)
(* and of the subsystem factory (patchbay/hardware/subsystem.py).          *)
(*                                                                         *)
(* A subsystem class is a table of attributes (properties and methods)     *)
(* that add_scpi_cmd / SubsystemFactory.add_cmd fill with closures built   *)
(* by _query_func and _write_func.  An instance holds a `keys` mapping     *)
(* and reaches the transport through its parent.  Invoking an accessor     *)
(* converts the value, formats the command and calls the transport.        *)
(*                                                                         *)
(* SubsystemFactory.add_subsystem builds instances and SubSystemDicts of   *)
(* instances; they are kept in a heap of objects, a second state machine   *)
(* (TreeSpec) attaches, renames, looks up and resolves the transport.  A   *)
(* third (FactorySpec) builds a class from the commands of a prototype.    *)
(* PercentSpec applies the percent converter, whose arithmetic is that of  *)
(* binary64, to replies and values; NodeSpec is patchbay/node.py's Node.   *)
(*                                                                         *)
(* Python strings are TLA+ strings; str.format, int() and float() are      *)
(* computed character by character.  Python values are tagged records      *)
(* [ty, i, s]; a float is held in thousandths.                             *)
(***************************************************************************)
EXTENDS Integers, Sequences, FiniteSets, TLC

VARIABLES
    cls,      \* the subsystem class: attribute name -> attribute
    defn,     \* the command definition compiled onto the class, or NoDef
    keys,     \* the instance's keys mapping (scpi.py: self.keys)
    last,     \* the most recent accessor invocation and what it did
    heap,     \* the objects add_subsystem has built, by place
    ret,      \* the most recent operation on the objects and what it gave
    renames,  \* how many times rename_channel has been called
    build,    \* the prototype add_cmds was last given and how it ended
    pct,      \* a value given to the percent converter and what became of it
    node      \* a Node: its channels and the most recent call on it

vars == <<cls, defn, keys, last, heap, ret, renames, build, pct, node>>

---------------------------------------------------------------------------
(* Bounds of the model.                                                    *)

\* largest channel id stored under a key of the instance
MaxChannel == 2
\* largest number of positional arguments a caller passes to an accessor
MaxArgs == 1
\* largest number of objects built
MaxObjects == 7
\* largest number of calls of rename_channel
MaxRenames == 1
\* largest number of commands of a prototype
MaxCommands == 2

---------------------------------------------------------------------------
(* Python values.                                                          *)

PyNone == [ty |-> "none", i |-> 0, s |-> ""]
PyBool(b) == [ty |-> "bool", i |-> IF b THEN 1 ELSE 0, s |-> ""]
PyInt(n) == [ty |-> "int", i |-> n, s |-> ""]
PyFloat(thousandths) == [ty |-> "float", i |-> thousandths, s |-> ""]
PyString(str) == [ty |-> "str", i |-> 0, s |-> str]
\* a pint quantity with an integer magnitude n in unit u
PyQty(n, u) == [ty |-> "qty", i |-> n, s |-> u]
\* a pint quantity with a float magnitude (in thousandths) in unit u
PyQtyF(thousandths, u) == [ty |-> "qtyf", i |-> thousandths, s |-> u]
\* the pair (code, message) that parse_errors returns
PyErrTuple(code, msg) == [ty |-> "tuple", i |-> code, s |-> msg]

\* the result of evaluating a Python expression: a value or a raised exception
Ok(v) == [ok |-> TRUE, val |-> v, err |-> ""]
Raise(e) == [ok |-> FALSE, val |-> PyNone, err |-> e]

\* Python's truth value of v
Truthy(v) ==
    CASE v.ty = "none" -> FALSE
      [] v.ty = "str" -> v.s # ""
      [] v.ty = "tuple" -> TRUE
      [] OTHER -> v.i # 0

---------------------------------------------------------------------------
(* Strings.                                                                *)

Char(str, i) == SubSeq(str, i, i)

Digits == <<"0", "1", "2", "3", "4", "5", "6", "7", "8", "9">>

IsDigit(c) == \E d \in 1..10 : Digits[d] = c

DigitVal(c) == (CHOOSE d \in 1..10 : Digits[d] = c) - 1

\* '{' in command
HasBrace(str) == \E i \in 1..Len(str) : Char(str, i) = "{"

\* str.find(c, from): the first index >= from holding c, or 0
RECURSIVE FindChar(_, _, _)
FindChar(str, c, from) ==
    IF from > Len(str) THEN 0
    ELSE IF Char(str, from) = c THEN from
    ELSE FindChar(str, c, from + 1)

AllDigits(str) == Len(str) > 0 /\ \A i \in 1..Len(str) : IsDigit(Char(str, i))

\* the number a string of digits denotes
RECURSIVE DigitsVal(_)
DigitsVal(str) ==
    IF Len(str) = 0 THEN 0
    ELSE 10 * DigitsVal(SubSeq(str, 1, Len(str) - 1)) + DigitVal(Char(str, Len(str)))

\* str.strip(): without leading and trailing blanks
RECURSIVE StripBlanks(_)
StripBlanks(str) ==
    IF Len(str) > 0 /\ Char(str, 1) = " " THEN StripBlanks(SubSeq(str, 2, Len(str)))
    ELSE IF Len(str) > 0 /\ Char(str, Len(str)) = " "
         THEN StripBlanks(SubSeq(str, 1, Len(str) - 1))
    ELSE str

\* int(str): optional blanks, an optional sign, then digits only
IntOfStr(str) ==
    LET t == StripBlanks(str)
        signed == Len(t) > 0 /\ Char(t, 1) \in {"+", "-"}
        body == IF signed THEN SubSeq(t, 2, Len(t)) ELSE t
    IN  IF ~AllDigits(body) THEN Raise("ValueError")
        ELSE IF signed /\ Char(t, 1) = "-" THEN Ok(PyInt(0 - DigitsVal(body)))
        ELSE Ok(PyInt(DigitsVal(body)))

\* float(str) in thousandths: [sign] digits [. digits], at most three decimals
FloatOfStr(str) ==
    LET t == StripBlanks(str)
        signed == Len(t) > 0 /\ Char(t, 1) \in {"+", "-"}
        body == IF signed THEN SubSeq(t, 2, Len(t)) ELSE t
        dot == FindChar(body, ".", 1)
        whole == IF dot = 0 THEN body ELSE SubSeq(body, 1, dot - 1)
        frac == IF dot = 0 THEN "" ELSE SubSeq(body, dot + 1, Len(body))
        padded == SubSeq(frac \o "000", 1, 3)
        wellformed == /\ Len(whole) + Len(frac) > 0
                      /\ whole = "" \/ AllDigits(whole)
                      /\ frac = "" \/ AllDigits(frac)
                      /\ Len(frac) <= 3
        mag == 1000 * DigitsVal(whole) + DigitsVal(padded)
    IN  IF ~wellformed THEN Raise("ValueError")
        ELSE IF signed /\ Char(t, 1) = "-" THEN Ok(PyFloat(0 - mag))
        ELSE Ok(PyFloat(mag))

\* repr of a float held in thousandths: shortest decimals, at least one
FloatStr(t) ==
    LET a == IF t < 0 THEN 0 - t ELSE t
        f == a % 1000
        d1 == ToString(f \div 100)
        d2 == ToString((f \div 10) % 10)
        d3 == ToString(f % 10)
        decimals == IF f % 10 # 0 THEN d1 \o d2 \o d3
                    ELSE IF f % 100 # 0 THEN d1 \o d2
                    ELSE d1
    IN  (IF t < 0 THEN "-" ELSE "") \o ToString(a \div 1000) \o "." \o decimals

\* pint's long name of a unit symbol
UnitName(u) ==
    CASE u = "Hz" -> "hertz"
      [] u = "mHz" -> "millihertz"
      [] u = "m" -> "meter"
      [] OTHER -> u

\* str(v), as str.format renders a value
PyStr(v) ==
    CASE v.ty = "none" -> "None"
      [] v.ty = "bool" -> IF v.i = 1 THEN "True" ELSE "False"
      [] v.ty = "int" -> ToString(v.i)
      [] v.ty = "float" -> FloatStr(v.i)
      [] v.ty = "str" -> v.s
      [] v.ty = "qty" -> ToString(v.i) \o " " \o UnitName(v.s)
      [] v.ty = "qtyf" -> FloatStr(v.i) \o " " \o UnitName(v.s)
      [] OTHER -> "(" \o ToString(v.i) \o ", '" \o v.s \o "')"

\* str.format(*args, **kwargs) for templates of literal text, {} and {name}:
\* fields are filled left to right, {} from the next positional argument
\* (IndexError when there is none), {name} from kwargs (KeyError when absent)
RECURSIVE FormatFrom(_, _, _, _, _)
FormatFrom(str, from, nextPos, args, kwargs) ==
    IF from > Len(str) THEN [ok |-> TRUE, s |-> "", err |-> ""]
    ELSE IF Char(str, from) # "{"
    THEN LET rest == FormatFrom(str, from + 1, nextPos, args, kwargs)
         IN  IF rest.ok THEN [rest EXCEPT !.s = Char(str, from) \o rest.s] ELSE rest
    ELSE LET close == FindChar(str, "}", from)
             field == SubSeq(str, from + 1, close - 1)
         IN  IF close = 0 THEN [ok |-> FALSE, s |-> "", err |-> "ValueError"]
             ELSE IF field = ""
             THEN IF nextPos > Len(args)
                  THEN [ok |-> FALSE, s |-> "", err |-> "IndexError"]
                  ELSE LET rest == FormatFrom(str, close + 1, nextPos + 1, args, kwargs)
                       IN  IF rest.ok
                           THEN [rest EXCEPT !.s = PyStr(args[nextPos]) \o rest.s]
                           ELSE rest
             ELSE IF field \notin DOMAIN kwargs
                  THEN [ok |-> FALSE, s |-> "", err |-> "KeyError"]
                  ELSE LET rest == FormatFrom(str, close + 1, nextPos, args, kwargs)
                       IN  IF rest.ok
                           THEN [rest EXCEPT !.s = PyStr(kwargs[field]) \o rest.s]
                           ELSE rest

Format(str, args, kwargs) == FormatFrom(str, 1, 1, args, kwargs)

---------------------------------------------------------------------------
(* Binary floating point (IEEE 754 binary64, Python's float), for the      *)
(* arithmetic of the percent converter.  A double is the record            *)
(* [ty |-> "double", i |-> e, s |-> m]: m is the significand in binary,    *)
(* most significant bit first and Precision bits long, with a leading "-"  *)
(* for a negative number, and the value is m * 2^e; zero is "0" with e 0.  *)

Precision == 53

ZeroBits == "0000000000000000000000000000000000000000000000000000000000000000000000"
OneBits == "1111111111111111111111111111111111111111111111111111111111111111111111"

\* F(e), with e evaluated once
With(e, F(_)) == CHOOSE r \in {F(v) : v \in {e}} : TRUE

AnyOne(b) == \E i \in 1..Len(b) : Char(b, i) = "1"

FirstOne(b) ==
    CHOOSE i \in 1..Len(b) : Char(b, i) = "1" /\ \A j \in 1..(i - 1) : Char(b, j) = "0"

\* without the leading zeros, down to one digit
StripZeros(bits) ==
    With(bits, LAMBDA b : IF AnyOne(b) THEN SubSeq(b, FirstOne(b), Len(b)) ELSE "0")

\* long arithmetic is done on limbs of LimbBits bits, so that a limb times a
\* small number stays an integer of 32 bits
LimbBits == 20
Base == 2 ^ LimbBits

\* the number that a string of at most 30 bits denotes
BitsVal(bits) ==
    With(bits, LAMBDA b :
        LET val[i \in 0..Len(b)] ==
                IF i = 0 THEN 0
                ELSE 2 * val[i - 1] + (IF Char(b, i) = "1" THEN 1 ELSE 0)
        IN  val[Len(b)])

\* v < 2^w in binary, w digits wide
BitsOfWidth(v, w) ==
    LET str[i \in 0..w] ==
            IF i = 0 THEN "" ELSE str[i - 1] \o ToString((v \div 2 ^ (w - i)) % 2)
    IN  str[w]

\* a natural number in binary
BitsOf(n) ==
    StripZeros(BitsOfWidth(n \div Base, 31 - LimbBits) \o BitsOfWidth(n % Base, LimbBits))

\* the limbs of a number in binary, most significant first, and back
ToLimbs(bits) ==
    With(bits, LAMBDA b :
        LET count == (Len(b) + LimbBits - 1) \div LimbBits
            pad == count * LimbBits - Len(b)
        IN  [j \in 1..count |->
                BitsVal(SubSeq(SubSeq(ZeroBits, 1, pad) \o b,
                               (j - 1) * LimbBits + 1, j * LimbBits))])

FromLimbs(limbs) ==
    With(limbs, LAMBDA l :
        LET str[j \in 0..Len(l)] ==
                IF j = 0 THEN "" ELSE str[j - 1] \o BitsOfWidth(l[j], LimbBits)
        IN  StripZeros(str[Len(l)]))

\* the limbs l divided by a small d: quotient and remainder
DivLimbs(limbs, d) ==
    With(limbs, LAMBDA l :
        LET res[j \in 0..Len(l)] ==
                IF j = 0 THEN [q |-> <<>>, r |-> 0]
                ELSE With(res[j - 1], LAMBDA p :
                         [q |-> Append(p.q, (p.r * Base + l[j]) \div d),
                          r |-> (p.r * Base + l[j]) % d])
        IN  res[Len(l)])

\* b \div d and b % d for a small d
DivSmall(b, d) ==
    With(DivLimbs(ToLimbs(b), d), LAMBDA res : [q |-> FromLimbs(res.q), r |-> res.r])

\* the limbs l times a small k, from the least significant limb on with the
\* carry
MulLimbs(limbs, k) ==
    With(limbs, LAMBDA l :
        LET res[j \in 1..(Len(l) + 1)] ==
                IF j > Len(l) THEN [p |-> <<>>, c |-> 0]
                ELSE With(res[j + 1], LAMBDA low :
                         [p |-> <<(l[j] * k + low.c) % Base>> \o low.p,
                          c |-> (l[j] * k + low.c) \div Base])
        IN  With(res[1], LAMBDA all : <<all.c>> \o all.p))

\* b * k for a small k
MulSmall(b, k) == FromLimbs(MulLimbs(ToLimbs(b), k))

LastZero(b) ==
    CHOOSE i \in 1..Len(b) :
        Char(b, i) = "0" /\ \A j \in (i + 1)..Len(b) : Char(b, j) = "1"

LastOne(b) ==
    CHOOSE i \in 1..Len(b) :
        Char(b, i) = "1" /\ \A j \in (i + 1)..Len(b) : Char(b, j) = "0"

\* b + 1
Inc(bits) ==
    With(bits, LAMBDA b :
        IF \A i \in 1..Len(b) : Char(b, i) = "1"
        THEN "1" \o SubSeq(ZeroBits, 1, Len(b))
        ELSE SubSeq(b, 1, LastZero(b) - 1) \o "1"
                 \o SubSeq(ZeroBits, 1, Len(b) - LastZero(b)))

\* b - 1, for b above zero
Dec(bits) ==
    With(bits, LAMBDA b :
        SubSeq(b, 1, LastOne(b) - 1) \o "0" \o SubSeq(OneBits, 1, Len(b) - LastOne(b)))

Double(m, e) == [ty |-> "double", i |-> e, s |-> m]

\* the quotient q with the remainder r, in units of 2^e, as a double:
\* Precision bits of q are kept and rounded to nearest on the bits that
\* follow and the remainder, ties to even
RoundQuotient(q, r, e) ==
    LET drop == Len(q) - Precision
        m == SubSeq(q, 1, Precision)
        half == Char(q, Precision + 1) = "1"
        more == AnyOne(SubSeq(q, Precision + 2, Len(q))) \/ r > 0
        up == half /\ (more \/ Char(q, Precision) = "1")
    IN  IF ~up THEN Double(m, e + drop)
        ELSE With(Inc(m), LAMBDA m1 :
                 IF Len(m1) > Precision
                 THEN Double(SubSeq(m1, 1, Precision), e + drop + 1)
                 ELSE Double(m1, e + drop))

\* how far n is shifted left for the quotient by d to have bits to spare
\* beyond the precision
Shift(n, d) ==
    LET need == Precision + 2 + Len(BitsOf(d)) - Len(n)
    IN  IF need > 0 THEN need ELSE 0

\* the double nearest to n / d * 2^e, ties to even, for n in binary and a
\* small d
RoundRat(bits, d, e) ==
    With(bits, LAMBDA n :
        IF ~AnyOne(n) THEN Double("0", 0)
        ELSE With(Shift(n, d), LAMBDA shift :
                 With(DivSmall(n \o SubSeq(ZeroBits, 1, shift), d), LAMBDA dv :
                     RoundQuotient(dv.q, dv.r, e - shift))))

\* the sign and the magnitude of a double
IsNeg(x) == Len(x.s) > 0 /\ Char(x.s, 1) = "-"
Mag(x) == IF IsNeg(x) THEN SubSeq(x.s, 2, Len(x.s)) ELSE x.s
Signed(neg, double) ==
    With(double, LAMBDA x : IF neg /\ x.s # "0" THEN Double("-" \o x.s, x.i) ELSE x)

\* the double of a decimal given in thousandths
DoubleOf(thousandths) ==
    IF thousandths < 0 THEN Signed(TRUE, RoundRat(BitsOf(0 - thousandths), 1000, 0))
    ELSE RoundRat(BitsOf(thousandths), 1000, 0)

\* x / d and x * k for a double x and small d and k
DoubleDiv(double, d) ==
    With(double, LAMBDA x : Signed(IsNeg(x), RoundRat(Mag(x), d, x.i)))
DoubleMul(double, k) ==
    With(double, LAMBDA x : Signed(IsNeg(x), RoundRat(MulSmall(Mag(x), k), 1, x.i)))

\* the next double away from zero
DoubleNext(double) ==
    With(double, LAMBDA x :
        With(Inc(Mag(x)), LAMBDA m1 :
            Signed(IsNeg(x),
                   IF Len(m1) > Precision
                   THEN Double(SubSeq(m1, 1, Precision), x.i + 1)
                   ELSE Double(m1, x.i))))

---------------------------------------------------------------------------
(* Converters (scpi.py: ScpiTypeConverter and the scpi_* constructors).    *)

\* a converter function: which function it is and what it closes over
Func(fn, choices, unit) == [fn |-> fn, choices |-> choices, unit |-> unit]
NoFunc == Func("None", <<>>, "")

ScpiTypeConverter(query, write) == [query |-> query, write |-> write]

\* any(converter) / all(converter) of the namedtuple
AnyFunc(converter) == converter.query # NoFunc \/ converter.write # NoFunc
AllFunc(converter) == converter.query # NoFunc /\ converter.write # NoFunc

scpi_error == ScpiTypeConverter(Func("parse_errors", <<>>, ""), NoFunc)

scpi_bool_mut == ScpiTypeConverter(Func("bool_int", <<>>, ""), Func("int_bool", <<>>, ""))
scpi_bool == ScpiTypeConverter(Func("bool_int", <<>>, ""), Func("int", <<>>, ""))

\* scpi_num('int')
scpi_num == ScpiTypeConverter(Func("int", <<>>, ""), Func("identity", <<>>, ""))

scpi_qty(unit_str) ==
    IF unit_str = "%"
    THEN ScpiTypeConverter(Func("percent_query", <<>>, ""), Func("percent_write", <<>>, ""))
    ELSE ScpiTypeConverter(Func("qty_query", <<>>, unit_str),
                           Func("qty_write", <<>>, unit_str))

\* a dict with string keys and values, in insertion order: ks[i] maps to
\* vs[i]; where a key occurs twice the later item is the one that counts
PyDict(ks, vs) == [kind |-> "dict", ks |-> ks, vs |-> vs]
\* a list of strings
PyList(vs) == [kind |-> "list", ks |-> <<>>, vs |-> vs]

\* container[v]: dict lookup by key, list lookup by integer index
Subscript(container, v) ==
    IF container.kind = "dict"
    THEN IF v.ty = "str" /\ \E i \in 1..Len(container.ks) : container.ks[i] = v.s
         THEN LET at == CHOOSE i \in 1..Len(container.ks) :
                            /\ container.ks[i] = v.s
                            /\ \A j \in (i + 1)..Len(container.ks) : container.ks[j] # v.s
              IN  Ok(PyString(container.vs[at]))
         ELSE Raise("KeyError")
    ELSE IF v.ty \notin {"int", "bool"} THEN Raise("TypeError")
    ELSE LET n == Len(container.vs)
         IN  IF v.i >= 0 /\ v.i < n THEN Ok(PyString(container.vs[v.i + 1]))
             ELSE IF v.i < 0 /\ v.i >= 0 - n THEN Ok(PyString(container.vs[n + v.i + 1]))
             ELSE Raise("IndexError")

\* InverseChoices that does not invert the mapping
InverseChoices_same(choices) == choices

\* try: {v: k for k, v in choices.items()}  except AttributeError: choices
\* (of two keys with the same token the comprehension keeps the later one,
\* which is the item Subscript finds)
InverseChoices(choices) ==
    IF choices.kind = "dict" THEN PyDict(choices.vs, choices.ks) ELSE choices

scpi_choice(choices) ==
    ScpiTypeConverter(Func("choice_query", InverseChoices(choices), ""),
                      Func("choice_write", choices, ""))

\* the physical dimension of a unit and its size in thousandths of the base unit
UnitDim(u) == IF u \in {"Hz", "mHz"} THEN "frequency" ELSE "length"
UnitMilli(u) == IF u = "mHz" THEN 1 ELSE 1000

\* int(v)
PyIntOf(v) ==
    CASE v.ty \in {"bool", "int"} -> Ok(PyInt(v.i))
      [] v.ty = "float" -> Ok(PyInt(IF v.i < 0 THEN 0 - ((0 - v.i) \div 1000)
                                    ELSE v.i \div 1000))
      [] v.ty = "str" -> IntOfStr(v.s)
      [] v.ty \in {"qty", "qtyf"} -> Raise("DimensionalityError")
      [] OTHER -> Raise("TypeError")

\* float(v)
PyFloatOf(v) ==
    CASE v.ty \in {"bool", "int"} -> Ok(PyFloat(1000 * v.i))
      [] v.ty = "float" -> Ok(v)
      [] v.ty = "str" -> FloatOfStr(v.s)
      [] v.ty \in {"qty", "qtyf"} -> Raise("DimensionalityError")
      [] OTHER -> Raise("TypeError")

\* str.strip('"'): without the leading and trailing double quotes
RECURSIVE StripQuotes(_)
StripQuotes(str) ==
    IF Len(str) > 0 /\ Char(str, 1) = "\"" THEN StripQuotes(SubSeq(str, 2, Len(str)))
    ELSE IF Len(str) > 0 /\ Char(str, Len(str)) = "\""
         THEN StripQuotes(SubSeq(str, 1, Len(str) - 1))
    ELSE str

parse_errors(v) ==
    IF v.ty # "str" THEN Raise("AttributeError")
    ELSE LET comma == FindChar(v.s, ",", 1)
             num == IntOfStr(SubSeq(v.s, 1, comma - 1))
         IN  IF comma = 0 THEN Raise("ValueError")
             ELSE IF ~num.ok THEN num
             ELSE Ok(PyErrTuple(num.val.i, StripQuotes(SubSeq(v.s, comma + 1, Len(v.s)))))

\* write_converter taking a bare number for a magnitude in the command's unit
write_converter_coerce(unit_str, value) ==
    IF value.ty \in {"int", "bool"} THEN Ok(PyFloat(1000 * value.i))
    ELSE IF value.ty = "float" THEN Ok(value)
    ELSE IF value.ty \notin {"qty", "qtyf"} THEN Raise("ValueError")
    ELSE IF UnitDim(value.s) # UnitDim(unit_str) THEN Raise("DimensionalityError")
    ELSE LET thousandths == IF value.ty = "qty" THEN 1000 * value.i ELSE value.i
         IN  Ok(PyFloat((thousandths * UnitMilli(value.s)) \div UnitMilli(unit_str)))

\* write_converter that gives the magnitude of the value as it is, in the
\* unit the caller used
write_converter_as_given(unit_str, value) ==
    IF value.ty \notin {"qty", "qtyf"} THEN Raise("ValueError")
    ELSE IF UnitDim(value.s) # UnitDim(unit_str) THEN Raise("DimensionalityError")
    ELSE Ok(PyFloat(IF value.ty = "qty" THEN 1000 * value.i ELSE value.i))

\* qty_write_converter(unit_str)(value)
write_converter(unit_str, value) ==
    IF value.ty \notin {"qty", "qtyf"} THEN Raise("ValueError")
    ELSE IF UnitDim(value.s) # UnitDim(unit_str) THEN Raise("DimensionalityError")
    ELSE LET thousandths == IF value.ty = "qty" THEN 1000 * value.i ELSE value.i
         IN  Ok(PyFloat((thousandths * UnitMilli(value.s)) \div UnitMilli(unit_str)))

\* s * n for a string
RECURSIVE Repeat(_, _)
Repeat(str, n) == IF n = 0 THEN "" ELSE str \o Repeat(str, n - 1)

\* float(v) as a double
DoubleOfValue(v) ==
    IF v.ty = "double" THEN Ok(v)
    ELSE With(PyFloatOf(v), LAMBDA x : IF x.ok THEN Ok(DoubleOf(x.val.i)) ELSE x)

\* percent_query that leaves out the division
percent_query_whole(v) == DoubleOfValue(v)

\* scpi_qty('%').query: lambda v: float(v) / 100
percent_query(v) ==
    With(DoubleOfValue(v), LAMBDA x : IF x.ok THEN Ok(DoubleDiv(x.val, 100)) ELSE x)

\* scpi_qty('%').write: lambda v: v * 100
\* (a tuple is not among the values that are written)
percent_write(v) ==
    CASE v.ty \in {"int", "bool"} -> Ok(PyInt(100 * v.i))
      [] v.ty = "double" -> Ok(DoubleMul(v, 100))
      [] v.ty = "float" -> Ok(DoubleMul(DoubleOf(v.i), 100))
      [] v.ty = "str" -> Ok(PyString(Repeat(v.s, 100)))
      [] v.ty \in {"qty", "qtyf"} -> Ok([v EXCEPT !.i = 100 * v.i])
      [] OTHER -> Raise("TypeError")

\* the call f(v) of a converter function
Apply(f, v) ==
    CASE f.fn = "None" -> Raise("TypeError")
      [] f.fn = "int" -> PyIntOf(v)
      [] f.fn = "int_bool" -> Ok(PyInt(IF Truthy(v) THEN 1 ELSE 0))
      [] f.fn = "bool_int" ->
            LET n == PyIntOf(v) IN IF n.ok THEN Ok(PyBool(n.val.i # 0)) ELSE n
      [] f.fn = "identity" -> Ok(v)
      [] f.fn = "parse_errors" -> parse_errors(v)
      [] f.fn \in {"choice_query", "choice_write"} ->
            Subscript(f.choices, v)
      [] f.fn = "qty_query" ->
            LET x == PyFloatOf(v) IN IF x.ok THEN Ok(PyQtyF(x.val.i, f.unit)) ELSE x
      [] f.fn = "qty_write" -> write_converter(f.unit, v)
      [] f.fn = "percent_query" -> percent_query(v)
      [] f.fn = "percent_write" -> percent_write(v)
      [] OTHER -> Raise("TypeError")

---------------------------------------------------------------------------
(* Accessor functions and class attributes.                                *)

\* a function object built by _query_func / _write_func (or by a factory's
\* query_func / write_func hook): which inner def it is, and what it closes over
Closure(kind, variant, command, conv, kw) ==
    [kind |-> kind, variant |-> variant, command |-> command, conv |-> conv, kw |-> kw]
NoClosure == Closure("none", "", "", NoFunc, "")

\* _query_func(command, converter): query_func(self, *args) when the command
\* holds a brace, query_func(self) otherwise
QueryFunc(command, converter) ==
    Closure("query", IF HasBrace(command) THEN "args" ELSE "plain", command, converter, "")

\* _write_func(command, converter): with a brace in the command,
\* write_func(self) formats with the keys when there is no converter and
\* write_func(self, value) converts and formats otherwise; without a brace,
\* write_func(self) sends the command as it is
WriteFunc(command, converter) ==
    Closure("write",
            IF HasBrace(command)
            THEN (IF converter = NoFunc THEN "keys" ELSE "value")
            ELSE "plain",
            command, converter, "")

\* property(fget, fset) and a plain function set on the class
Property(fget, fset) == [kind |-> "property", fget |-> fget, fset |-> fset, func |-> NoClosure]
Method(func) == [kind |-> "method", fget |-> NoClosure, fset |-> NoClosure, func |-> func]

\* setattr(base_cls, name, attr)
SetAttr(c, name, attr) == [n \in DOMAIN c \cup {name} |-> IF n = name THEN attr ELSE c[n]]

\* the class returned by get_blank_scpi_subsystem / _get_new_subsystem
BlankClass == <<>>

\* _build_command(base_cmd, post, is_query); post = "" stands for None
\* (both are false in `if post:`)
BuildCommand(base_cmd, post, is_query) ==
    LET command == base_cmd \o (IF is_query THEN "?" ELSE "")
    IN  IF post # "" THEN command \o " " \o post
        ELSE IF ~is_query THEN command \o " {value}"
        ELSE command

---------------------------------------------------------------------------
(* add_scpi_cmd (scpi.py).                                                 *)

\* the first if/else of add_scpi_cmd: the base accessors
ScpiBaseAttrs(c, name, scpi_base_cmd, converter, can_query, can_write) ==
    IF HasBrace(scpi_base_cmd) \/ ~AnyFunc(converter)
    THEN LET c1 == IF can_query /\ converter.query # NoFunc
                   THEN SetAttr(c, "get_" \o name, Method(QueryFunc(scpi_base_cmd, converter.query)))
                   ELSE c
             w_prefix == IF converter.write # NoFunc THEN "set_" ELSE ""
         IN  IF can_write
             THEN SetAttr(c1, w_prefix \o name, Method(WriteFunc(scpi_base_cmd, converter.write)))
             ELSE c1
    ELSE LET prop_get == IF can_query /\ converter.query # NoFunc
                         THEN QueryFunc(BuildCommand(scpi_base_cmd, "", TRUE), converter.query)
                         ELSE NoClosure
             prop_set == IF can_write /\ converter.write # NoFunc
                         THEN WriteFunc(BuildCommand(scpi_base_cmd, "", FALSE), converter.write)
                         ELSE NoClosure
         IN  SetAttr(c, name, Property(prop_get, prop_set))

\* for keyword in query_keywords: a read-only property name_<keyword>
RECURSIVE ScpiQueryKeywordAttrs(_, _, _, _, _)
ScpiQueryKeywordAttrs(c, name, scpi_base_cmd, converter, query_keywords) ==
    IF query_keywords = <<>> THEN c
    ELSE LET keyword == Head(query_keywords)
             cmd == BuildCommand(scpi_base_cmd, keyword, TRUE)
         IN  ScpiQueryKeywordAttrs(
                 SetAttr(c, name \o "_" \o keyword,
                         Property(QueryFunc(cmd, converter.query), NoClosure)),
                 name, scpi_base_cmd, converter, Tail(query_keywords))

\* for keyword in write_keywords: a method name_to_<keyword>
RECURSIVE ScpiWriteKeywordAttrs(_, _, _, _)
ScpiWriteKeywordAttrs(c, name, scpi_base_cmd, write_keywords) ==
    IF write_keywords = <<>> THEN c
    ELSE LET keyword == Head(write_keywords)
             cmd == BuildCommand(scpi_base_cmd, keyword, FALSE)
         IN  ScpiWriteKeywordAttrs(
                 SetAttr(c, name \o "_to_" \o keyword, Method(WriteFunc(cmd, NoFunc))),
                 name, scpi_base_cmd, Tail(write_keywords))

add_scpi_cmd(c, name, scpi_base_cmd, converter, can_query, can_write, query_keywords, write_keywords) ==
    LET base == ScpiBaseAttrs(c, name, scpi_base_cmd, converter, can_query, can_write)
        withq == ScpiQueryKeywordAttrs(base, name, scpi_base_cmd, converter, query_keywords)
    IN  ScpiWriteKeywordAttrs(withq, name, scpi_base_cmd, write_keywords)

---------------------------------------------------------------------------
(* SubsystemFactory.add_cmd (subsystem.py).                                *)

\* the converter constructors a concrete factory registers in converter_map
ConverterMap(cmd_type, cmd_arg) ==
    CASE cmd_type = "error" -> scpi_error
      [] cmd_type = "bool" -> scpi_bool
      [] cmd_type = "qty" -> scpi_qty(cmd_arg.unit)
      [] OTHER -> scpi_choice(cmd_arg.choices)

\* add_can_querywrite_keywords: the converter with the directions that
\* can_query / can_write switch off removed
ValueConverter(converter, can_query, can_write) ==
    [query |-> IF can_query THEN converter.query ELSE NoFunc,
     write |-> IF can_write THEN converter.write ELSE NoFunc]

\* the factory's query_func / write_func hooks
FactoryQueryFunc(name, converter, keyword) ==
    Closure("factory_query", "", name, converter, keyword)
FactoryWriteFunc(name, converter, keyword) ==
    Closure("factory_write", "", name, converter, keyword)

\* FactoryBaseAttrs with `any` for `all`: a property as soon as one direction
\* has a function
FactoryBaseAttrs_any(c, name, converter) ==
    IF AnyFunc(converter)
    THEN SetAttr(c, name, Property(FactoryQueryFunc(name, converter.query, ""),
                                   FactoryWriteFunc(name, converter.write, "")))
    ELSE SetAttr(c, name, Method(FactoryWriteFunc(name, converter.write, "")))

\* the if/else of add_cmd: the base accessor
FactoryBaseAttrs(c, name, converter) ==
    IF AllFunc(converter)
    THEN SetAttr(c, name, Property(FactoryQueryFunc(name, converter.query, ""),
                                   FactoryWriteFunc(name, converter.write, "")))
    ELSE IF converter.query # NoFunc
    THEN SetAttr(c, "get_" \o name, Method(FactoryQueryFunc(name, converter.query, "")))
    ELSE LET w_prefix == IF converter.write # NoFunc THEN "set_" ELSE ""
         IN  SetAttr(c, w_prefix \o name, Method(FactoryWriteFunc(name, converter.write, "")))

RECURSIVE FactoryQueryKeywordAttrs(_, _, _, _)
FactoryQueryKeywordAttrs(c, name, converter, query_keywords) ==
    IF query_keywords = <<>> THEN c
    ELSE LET key == Head(query_keywords)
         IN  FactoryQueryKeywordAttrs(
                 SetAttr(c, name \o "_" \o key,
                         Property(FactoryQueryFunc(name, converter.query, key), NoClosure)),
                 name, converter, Tail(query_keywords))

RECURSIVE FactoryWriteKeywordAttrs(_, _, _)
FactoryWriteKeywordAttrs(c, name, write_keywords) ==
    IF write_keywords = <<>> THEN c
    ELSE LET key == Head(write_keywords)
         IN  FactoryWriteKeywordAttrs(
                 SetAttr(c, name \o "_to_" \o key, Method(FactoryWriteFunc(name, NoFunc, key))),
                 name, Tail(write_keywords))

add_cmd(c, name, cmd_type, cmd_arg, can_query, can_write, query_keywords, write_keywords) ==
    LET c0 == IF cmd_type = "choice"
              THEN SetAttr(c, name \o "_choices",
                           Method(Closure("choices", "", name,
                                          Func("keys", cmd_arg.choices, ""), "")))
              ELSE c
        converter == ValueConverter(ConverterMap(cmd_type, cmd_arg), can_query, can_write)
        base == FactoryBaseAttrs(c0, name, converter)
        withq == FactoryQueryKeywordAttrs(base, name, converter, query_keywords)
    IN  FactoryWriteKeywordAttrs(withq, name, write_keywords)

---------------------------------------------------------------------------
(* SubsystemFactory.add_cmds and the whole of add_subsystem.               *)

\* the kinds converter_map has a constructor for
KnownKinds == {"error", "bool", "qty", "choice"}

\* cmd_arg: the choices of a choice command, the unit of a quantity command
CmdArg(choices, unit) == [choices |-> choices, unit |-> unit]

\* a command of a prototype: (cmd_name, cmd_type, cmd_arg, cmd_kwargs); for
\* a choice command cmd_arg lists the choices
Command(name, cmd_type, cmd_arg, can_query, can_write, query_keywords, write_keywords) ==
    [name |-> name, cmd_type |-> cmd_type, cmd_arg |-> cmd_arg,
     can_query |-> can_query, can_write |-> can_write,
     query_keywords |-> query_keywords, write_keywords |-> write_keywords]

\* the elements of a list of strings
Listed(list) == {list.vs[i] : i \in 1..Len(list.vs)}

\* FilterChoices that takes the whole choice map of the device
FilterChoices_all(choice_map, listed) == choice_map

\* {key: val for key, val in choice_map.items() if key in cmd_arg}
FilterChoices(choice_map, listed) ==
    LET at == SelectSeq([i \in 1..Len(choice_map.ks) |-> i],
                        LAMBDA i : choice_map.ks[i] \in Listed(listed))
    IN  PyDict([j \in 1..Len(at) |-> choice_map.ks[at[j]]],
               [j \in 1..Len(at) |-> choice_map.vs[at[j]]])

\* what add_cmds left of the class and how it ended
Built(c, outcome) == [cls |-> c, outcome |-> outcome]

\* for cmd_name, cmd_type, cmd_arg, *cmd_kwargs in prototype['commands']:
\*     ... cls.add_cmd(target, cmd_name, cmd_type, cmd_arg, **cmd_kwargs)
\* choice_maps[cmd_name] raises KeyError for a choice command without map,
\* converter_map[cmd_type] in add_cmd raises KeyError for a kind it has not
RECURSIVE add_cmds(_, _, _)
add_cmds(c, commands, choice_maps) ==
    IF commands = <<>> THEN Built(c, Ok(PyNone))
    ELSE LET cmd == Head(commands)
             cmd_arg == IF cmd.cmd_type = "choice"
                        THEN CmdArg(FilterChoices(choice_maps[cmd.name],
                                                  cmd.cmd_arg.choices), "")
                        ELSE cmd.cmd_arg
         IN  IF cmd.cmd_type = "choice" /\ cmd.name \notin DOMAIN choice_maps
             THEN Built(c, Raise("KeyError"))
             ELSE IF cmd.cmd_type \notin KnownKinds
             THEN Built(c, Raise("KeyError"))
             ELSE add_cmds(add_cmd(c, cmd.name, cmd.cmd_type, cmd_arg,
                                   cmd.can_query, cmd.can_write,
                                   cmd.query_keywords, cmd.write_keywords),
                           Tail(commands), choice_maps)

\* tuple(cmd_arg.keys()): what name_choices() returns
ChoiceKeys(f) == PyList(f.conv.choices.ks)

---------------------------------------------------------------------------
(* Invoking an accessor function.                                          *)

\* one call of the transport: device.query(cmd) / device.write(cmd)
Sent(op, cmd) == [op |-> op, cmd |-> cmd]

\* what an invocation did: the transport calls it made, the steps it took
\* in order, what it returned or raised, which step raised and the reply the
\* transport gave ("" when it gave none)
Result(sent, events, outcome, stage, reply) ==
    [sent |-> sent, events |-> events, outcome |-> outcome, stage |-> stage,
     reply |-> reply]

\* how the transport answers one call: it fails, or it returns reply
Transport(ok, reply) == [ok |-> ok, reply |-> reply]

\* InvokeQuery sending the template as it is when a placeholder cannot be filled
InvokeQuery_unfilled(f, args, t) ==
    LET fmt == IF f.variant = "args" THEN Format(f.command, args, <<>>)
               ELSE [ok |-> TRUE, s |-> f.command, err |-> ""]
        cmd == IF fmt.ok THEN fmt.s ELSE f.command
        r == Apply(f.conv, PyString(t.reply))
    IN  IF ~t.ok
        THEN Result(<<Sent("query", cmd)>>, <<"format", "query">>,
                    Raise("TransportError"), "transport", "")
        ELSE Result(<<Sent("query", cmd)>>, <<"format", "query", "convert">>, r,
                    IF r.ok THEN "done" ELSE "conversion", t.reply)

\* InvokeQuery asking the transport a second time when the first query fails
InvokeQuery_retry(f, args, t) ==
    LET fmt == IF f.variant = "args" THEN Format(f.command, args, <<>>)
               ELSE [ok |-> TRUE, s |-> f.command, err |-> ""]
        r == Apply(f.conv, PyString(t.reply))
    IN  IF ~fmt.ok
        THEN Result(<<>>, <<"format">>, Raise(fmt.err), "substitution", "")
        ELSE IF ~t.ok
        THEN Result(<<Sent("query", fmt.s), Sent("query", fmt.s)>>,
                    <<"format", "query", "query">>, Raise("TransportError"), "transport", "")
        ELSE Result(<<Sent("query", fmt.s)>>, <<"format", "query", "convert">>, r,
                    IF r.ok THEN "done" ELSE "conversion", t.reply)

\* query_func(self, *args) / query_func(self):
\*   converter(self._parent().device.query(command.format(*args)))
InvokeQuery(f, args, t) ==
    LET fmt == IF f.variant = "args" THEN Format(f.command, args, <<>>)
               ELSE [ok |-> TRUE, s |-> f.command, err |-> ""]
        pre == IF f.variant = "args" THEN <<"format">> ELSE <<>>
    IN  IF ~fmt.ok
        THEN Result(<<>>, pre, Raise(fmt.err), "substitution", "")
        ELSE IF ~t.ok
        THEN Result(<<Sent("query", fmt.s)>>, pre \o <<"query">>,
                    Raise("TransportError"), "transport", "")
        ELSE LET r == Apply(f.conv, PyString(t.reply))
             IN  Result(<<Sent("query", fmt.s)>>, pre \o <<"query", "convert">>, r,
                        IF r.ok THEN "done" ELSE "conversion", t.reply)

\* InvokeWrite transmitting the caller's value first and converting afterwards
InvokeWrite_sendfirst(f, args, k, t) ==
    LET kwargs == IF f.variant = "value"
                  THEN [n \in DOMAIN k \cup {"value"} |->
                            IF n = "value" THEN args[1] ELSE k[n]]
                  ELSE k
        fmt == IF f.variant = "plain" THEN [ok |-> TRUE, s |-> f.command, err |-> ""]
               ELSE Format(f.command, <<>>, kwargs)
        cv == IF f.variant = "value" THEN Apply(f.conv, args[1]) ELSE Ok(PyNone)
    IN  IF ~fmt.ok
        THEN Result(<<>>, <<"format">>, Raise(fmt.err), "substitution", "")
        ELSE IF ~t.ok
        THEN Result(<<Sent("write", fmt.s)>>, <<"format", "write">>,
                    Raise("TransportError"), "transport", "")
        ELSE Result(<<Sent("write", fmt.s)>>, <<"format", "write", "convert">>,
                    IF cv.ok THEN Ok(PyNone) ELSE cv,
                    IF cv.ok THEN "done" ELSE "conversion", "")

\* write_func(self) / write_func(self, value):
\*   value = converter(value)
\*   self._parent().device.write(command.format(**self.keys, value=value))
InvokeWrite(f, args, k, t) ==
    LET cv == IF f.variant = "value" THEN Apply(f.conv, args[1]) ELSE Ok(PyNone)
        kwargs == IF f.variant = "value"
                  THEN [n \in DOMAIN k \cup {"value"} |->
                            IF n = "value" THEN cv.val ELSE k[n]]
                  ELSE k
        fmt == CASE f.variant = "plain" -> [ok |-> TRUE, s |-> f.command, err |-> ""]
                 [] f.variant = "value" /\ "value" \in DOMAIN k ->
                        [ok |-> FALSE, s |-> "", err |-> "TypeError"]
                 [] OTHER -> Format(f.command, <<>>, kwargs)
        pre == CASE f.variant = "plain" -> <<>>
                 [] f.variant = "keys" -> <<"format">>
                 [] OTHER -> <<"convert", "format">>
    IN  IF ~cv.ok
        THEN Result(<<>>, <<"convert">>, cv, "conversion", "")
        ELSE IF ~fmt.ok
        THEN Result(<<>>, pre, Raise(fmt.err), "substitution", "")
        ELSE IF ~t.ok
        THEN Result(<<Sent("write", fmt.s)>>, pre \o <<"write">>,
                    Raise("TransportError"), "transport", "")
        ELSE Result(<<Sent("write", fmt.s)>>, pre \o <<"write">>, Ok(PyNone), "done", "")

\* reading or assigning a property that has no function for that direction
NoAccess == Result(<<>>, <<>>, Raise("AttributeError"), "access", "")

---------------------------------------------------------------------------
(* Subsystem instances (subsystem.py: add_subsystem, subsystem_init,       *)
(* _device, SubSystemDict).  The objects are kept in a heap: an object is  *)
(* known by its place in the heap, so that `is` is equality of places.     *)

\* a reference to the object at place id
PyRef(id) == [ty |-> "ref", i |-> id, s |-> ""]

\* an object: the transport, the node that owns it (the target that has a
\* `device` attribute), an instance of a subsystem class, or a SubSystemDict.
\* parent is what the weak reference _parent points at (0: it has none),
\* attrs the attributes set on the object, items the dict's items in
\* insertion order as <<key, place>>; alive is false once the object has
\* been dropped by its owner
TObject(kind, proto, parent, channel_idx, attrs, items) ==
    [kind |-> kind, proto |-> proto, parent |-> parent, channel_idx |-> channel_idx,
     attrs |-> attrs, items |-> items, alive |-> TRUE]

TransportId == 1
NodeId == 2

\* a node that holds its transport as `device`
InitHeap ==
    <<TObject("transport", "", 0, PyNone, <<>>, <<>>),
      TObject("node", "", 0, PyNone, [device |-> TransportId], <<>>)>>

\* subsystem_init(self, parent, channel_idx=None): the new instance has the
\* attributes _parent and channel_idx and no others
subsystem_init(proto, parent, channel_idx) ==
    TObject("instance", proto, parent, channel_idx, <<>>, <<>>)

\* SubSystemDict({c: instance, ...})
SubSystemDict(proto, items) == TObject("dict", proto, 0, PyNone, <<>>, items)

\* the keys of a dict and the places of its values, in order
DictKeys(d) == {d.items[i][1] : i \in 1..Len(d.items)}
DictValues(d) == [i \in 1..Len(d.items) |-> d.items[i][2]]
DictAt(d, k) == d.items[CHOOSE i \in 1..Len(d.items) : d.items[i][1] = k][2]

\* the objects an object owns: what its attributes and its items hold
Children(h, id) ==
    IF h[id].kind \in {"instance", "dict"}
    THEN {h[id].attrs[a] : a \in DOMAIN h[id].attrs}
             \cup {h[id].items[i][2] : i \in 1..Len(h[id].items)}
    ELSE IF h[id].kind = "node"
    THEN {h[id].attrs[a] : a \in DOMAIN h[id].attrs \ {"device"}}
    ELSE {}

\* an object and everything below it
RECURSIVE Owned(_, _)
Owned(h, id) == {id} \cup UNION {Owned(h, c) : c \in Children(h, id)}

\* what is left at the place of an object that has been freed
Freed == [TObject("freed", "", 0, PyNone, <<>>, <<>>) EXCEPT !.alive = FALSE]

\* the heap after the objects of `dropped` have lost their last owner: they
\* and what they own are freed
Drop(h, dropped) ==
    [id \in 1..Len(h) |->
        IF \E d \in dropped : id \in Owned(h, d) THEN Freed ELSE h[id]]

\* setattr(t, name, value): the attribute is set, and what it held before is
\* dropped
SetAttribute(h, t, name, value) ==
    LET old == IF name \in DOMAIN h[t].attrs THEN {h[t].attrs[name]} ELSE {}
        dropped == Drop(h, old \ {value})
    IN  [dropped EXCEPT ![t].attrs =
            [n \in DOMAIN h[t].attrs \cup {name} |->
                IF n = name THEN value ELSE h[t].attrs[n]]]

\* del node, while the caller holds the instance `kept`: _parent is a
\* weakref.ref, so nothing below the node keeps the node there; the node and
\* what it owns are freed, except the kept instance and what that owns
DelParent(h, p, kept) ==
    [id \in 1..Len(h) |->
        IF id \in Owned(h, p) \ Owned(h, kept) THEN Freed ELSE h[id]]

\* a prototype: its name and whether it is indexed
Prototype(name, indexed) == [name |-> name, indexed |-> indexed]

\* ChannelIds that leaves out every other id
ChannelIds_gap(num_channels, zero_indexed) ==
    [i \in 1..num_channels |-> 2 * (i - 1) + (IF zero_indexed THEN 0 ELSE 1)]

\* ChannelIds that always starts at 1
ChannelIds_one(num_channels, zero_indexed) == [i \in 1..num_channels |-> i]

\* ch_ids = [i + start_index for i in range(num_channels)]
ChannelIds(num_channels, zero_indexed) ==
    [i \in 1..num_channels |-> (i - 1) + (IF zero_indexed THEN 0 ELSE 1)]

\* the body of the loop of add_subsystem for one target t, every channel
\* holding the one instance built for the first: the mutation of AttachTo
AttachTo_shared(h, t, prototype, num_channels, zero_indexed) ==
    LET ch_ids == ChannelIds(num_channels, zero_indexed)
        n == Len(h)
        one == h \o (IF num_channels > 0
                     THEN <<subsystem_init(prototype.name, t, PyInt(ch_ids[1]))>>
                     ELSE <<>>)
        channels == SubSystemDict(prototype.name,
                                  [i \in 1..num_channels |-> <<ch_ids[i], n + 1>>])
    IN  IF prototype.indexed
        THEN SetAttribute(Append(one, channels), t, prototype.name, Len(one) + 1)
        ELSE SetAttribute(Append(h, subsystem_init(prototype.name, t, PyNone)),
                          t, prototype.name, n + 1)

\* the body of the loop of add_subsystem for one target t:
\*   channels = SubSystemDict({c: subsystem(t, channel_idx=c) for c in ch_ids})
\*   setattr(t, prototype['name'], channels)
\* or setattr(t, prototype['name'], subsystem(t))
AttachTo(h, t, prototype, num_channels, zero_indexed) ==
    LET ch_ids == ChannelIds(num_channels, zero_indexed)
        n == Len(h)
        instances == [i \in 1..num_channels |->
                         subsystem_init(prototype.name, t, PyInt(ch_ids[i]))]
        channels == SubSystemDict(prototype.name,
                                  [i \in 1..num_channels |-> <<ch_ids[i], n + i>>])
    IN  IF prototype.indexed
        THEN SetAttribute((h \o instances) \o <<channels>>, t, prototype.name,
                          n + num_channels + 1)
        ELSE SetAttribute(Append(h, subsystem_init(prototype.name, t, PyNone)),
                          t, prototype.name, n + 1)

\* AttachAll that attaches to the first of the targets only
AttachAll_once(h, targets, prototype, num_channels, zero_indexed) ==
    IF targets = <<>> THEN h
    ELSE AttachTo(h, Head(targets), prototype, num_channels, zero_indexed)

\* for t in targets: ...
RECURSIVE AttachAll(_, _, _, _, _)
AttachAll(h, targets, prototype, num_channels, zero_indexed) ==
    IF targets = <<>> THEN h
    ELSE AttachAll(AttachTo(h, Head(targets), prototype, num_channels, zero_indexed),
                   Tail(targets), prototype, num_channels, zero_indexed)

\* SubsystemFactory.add_subsystem(target, prototype=prototype,
\*                                num_channels=..., zero_indexed=...)
add_subsystem(h, target, prototype, num_channels, zero_indexed) ==
    LET targets == IF h[target].kind = "dict" THEN DictValues(h[target])
                   ELSE <<target>>
    IN  AttachAll(h, targets, prototype, num_channels, zero_indexed)

\* what add_subsystem left of the objects and of the class, and how it ended
Attachment(h, built) == [heap |-> h, cls |-> built.cls, outcome |-> built.outcome]

\* add_subsystem that attaches the instances before it adds the commands
add_subsystem_cmds_late(h, target, prototype, commands, choice_maps, num_channels, zero_indexed) ==
    Attachment(add_subsystem(h, target, prototype, num_channels, zero_indexed),
               add_cmds(BlankClass, commands, choice_maps))

\* SubsystemFactory.add_subsystem as a whole:
\*     subsystem = cls._get_new_subsystem(...)
\*     cls.add_cmds(prototype, subsystem, choice_maps)
\*     for t in targets: ...
add_subsystem_cmds(h, target, prototype, commands, choice_maps, num_channels, zero_indexed) ==
    LET built == add_cmds(BlankClass, commands, choice_maps)
    IN  IF built.outcome.ok
        THEN Attachment(add_subsystem(h, target, prototype, num_channels, zero_indexed),
                        built)
        ELSE Attachment(h, built)

\* the places add_subsystem allocates
Allocated(h, target, prototype, num_channels) ==
    (IF h[target].kind = "dict" THEN Len(h[target].items) ELSE 1)
        * (IF prototype.indexed THEN num_channels + 1 ELSE 1)

\* an operation on the objects: which one, on which object, with which
\* arguments (NoKey, NoPrototype and 0 where it has none), and what it
\* returned or raised
NoKey == 0 - 1
NoPrototype == Prototype("", FALSE)
TCall(op, obj, outcome) ==
    [op |-> op, obj |-> obj, key |-> NoKey, new_key |-> NoKey,
     prototype |-> NoPrototype, num_channels |-> 0, zero_indexed |-> FALSE,
     outcome |-> outcome]
NoTCall == TCall("none", 0, Ok(PyNone))

\* getattr(obj, name) for an attribute kept on the object
GetAttr(h, id, name) ==
    IF name \in DOMAIN h[id].attrs THEN Ok(PyRef(h[id].attrs[name]))
    ELSE Raise("AttributeError")

\* self._parent(): the parent, or None once the parent is gone
Parent(h, id) ==
    IF h[id].parent # 0 /\ h[h[id].parent].alive THEN PyRef(h[id].parent) ELSE PyNone

\* _device(self): self._parent().device
\* (the same expression reaches the transport in query_func and write_func)
Device(h, id) ==
    IF Parent(h, id) = PyNone THEN Raise("AttributeError")
    ELSE GetAttr(h, Parent(h, id).i, "device")

\* channels[key]
GetItem(h, d, key) ==
    IF key \in DictKeys(h[d]) THEN Ok(PyRef(DictAt(h[d], key))) ELSE Raise("KeyError")

\* SubSystemDict.rename_channel: self[new_key] = self.pop(old_key)
rename_channel(h, d, old_key, new_key) ==
    LET moved == DictAt(h[d], old_key)
        popped == SelectSeq(h[d].items, LAMBDA it : it[1] # old_key)
        replaced == {popped[i][2] : i \in {j \in 1..Len(popped) : popped[j][1] = new_key}}
        items == IF \E i \in 1..Len(popped) : popped[i][1] = new_key
                 THEN [i \in 1..Len(popped) |->
                          IF popped[i][1] = new_key THEN <<new_key, moved>>
                          ELSE popped[i]]
                 ELSE Append(popped, <<new_key, moved>>)
    IN  [Drop(h, replaced) EXCEPT ![d].items = items]

---------------------------------------------------------------------------
(* The inputs the model draws.                                             *)

CmdNames == {"volt"}

\* a template without placeholder, with a named one and with a positional one
BaseCmds == {"cmd:sub", "cmd{ch}:sub", "cmd{}:sub"}

KeyNames == {"ch"}

ChoiceMap == PyDict(<<"sinusoid", "square">>, <<"SIN", "SQU">>)
\* a mapping with two names for one token
ChoiceAlias == PyDict(<<"sinusoid", "sine">>, <<"SIN", "SIN">>)
\* the choices as a list
ChoiceList == PyList(<<"SIN", "SQU">>)

NoneConverter == ScpiTypeConverter(NoFunc, NoFunc)

ScpiConverters ==
    {NoneConverter, scpi_bool, scpi_num, scpi_error, scpi_qty("Hz"),
     scpi_choice(ChoiceMap), scpi_choice(ChoiceAlias), scpi_choice(ChoiceList)}

\* cmd_type and cmd_arg of a factory command
FactoryCmds ==
    {<<"error", CmdArg(<<>>, "")>>, <<"bool", CmdArg(<<>>, "")>>,
     <<"qty", CmdArg(<<>>, "Hz")>>, <<"choice", CmdArg(ChoiceMap, "")>>}

KeywordLists == {<<>>, <<"min", "max">>}

\* values a caller writes
WriteValues ==
    {PyBool(TRUE), PyBool(FALSE), PyInt(0), PyInt(1), PyInt(4),
     PyString("0"), PyString("1"), PyString("abc"),
     PyString("sinusoid"), PyString("triangle"), PyString("SIN"),
     PyQty(100, "mHz"), PyQty(2500, "mHz"), PyQty(234, "m")}

\* replies of the device
Replies ==
    {"0", "1", "4", "abc", "SQU", "SIN", "500", "0.1",
     "+0,\"No Error\"", "+0, \"No Error\"", "5,\"a,b\""}

\* the transport fails, or answers a query with one of the replies
QueryTransports == {Transport(FALSE, "")} \cup {Transport(TRUE, r) : r \in Replies}
\* the transport fails, or accepts a write
WriteTransports == {Transport(ok, "") : ok \in BOOLEAN}

\* positional arguments of a call: up to MaxArgs channel numbers
RECURSIVE ArgLists(_)
ArgLists(n) ==
    IF n = 0 THEN {<<>>}
    ELSE ArgLists(n - 1) \cup
         {Append(a, PyInt(c)) : a \in {b \in ArgLists(n - 1) : Len(b) = n - 1},
                                c \in 1..MaxChannel}

---------------------------------------------------------------------------
(* The state machine.                                                      *)

CmdDef(via, name, base, cmd_type, converter, can_query, can_write, query_keywords, write_keywords) ==
    [via |-> via, name |-> name, base |-> base, cmd_type |-> cmd_type,
     converter |-> converter, can_query |-> can_query, can_write |-> can_write,
     query_keywords |-> query_keywords, write_keywords |-> write_keywords]

NoDef == CmdDef("none", "", "", "", NoneConverter, FALSE, FALSE, <<>>, <<>>)

Call(attr, op, f, args, r) ==
    [attr |-> attr, op |-> op, f |-> f, args |-> args, sent |-> r.sent,
     events |-> r.events, outcome |-> r.outcome, stage |-> r.stage,
     reply |-> r.reply]

NoCall == Call("", "none", NoClosure, <<>>, Result(<<>>, <<>>, Ok(PyNone), "done", ""))

\* a call of add_cmds (of itself or within add_subsystem): the commands and
\* choice maps it was given and how it ended
Build(op, commands, choice_maps, outcome) ==
    [op |-> op, commands |-> commands, choice_maps |-> choice_maps, outcome |-> outcome]

NoBuild == Build("none", <<>>, <<>>, Ok(PyNone))

\* a value x given to the percent converter, what was done with it and what
\* that gave
Pct(x, op, out) == [x |-> x, op |-> op, out |-> out]
NoPct == Pct(PyNone, "none", Ok(PyNone))

\* a call on a Node: the method, the channel id, the attributes or keyword
\* names given, and allow_overwrite
NodeCall(op, channel_id, given, allow_overwrite) ==
    [op |-> op, channel_id |-> channel_id, given |-> given,
     allow_overwrite |-> allow_overwrite]

\* a Node: _channel_specs as the pairs <<channel id, attributes>> in the
\* order of insertion, and the most recent call on it with its outcome, the
\* attributes it called set_channel_attribute for, and _channel_specs as it
\* was before the call
NodeState(channel_specs, call, outcome, sets, before) ==
    [channel_specs |-> channel_specs, call |-> call, outcome |-> outcome,
     sets |-> sets, before |-> before]

\* Node(): no channels
NewNode == NodeState(<<>>, NodeCall("none", "", <<>>, FALSE), Ok(PyNone), <<>>, <<>>)

TypeOK ==
    /\ \A a \in DOMAIN cls : cls[a].kind \in {"property", "method"}
    /\ defn.via \in {"none", "add_scpi_cmd", "add_cmd"}
    /\ DOMAIN keys \subseteq KeyNames
    /\ last.op \in {"none", "get", "set", "call"}

Init ==
    /\ cls = BlankClass
    /\ defn = NoDef
    /\ keys = <<>>
    /\ last = NoCall
    /\ heap = InitHeap
    /\ ret = NoTCall
    /\ renames = 0
    /\ build = NoBuild
    /\ pct = NoPct
    /\ node = NewNode

\* scpi.add_scpi_cmd(subsys, name, scpi_base_cmd, converter, **kwargs)
AddScpiCmd ==
    /\ defn = NoDef
    /\ \E name \in CmdNames, base \in BaseCmds, converter \in ScpiConverters,
          can_query \in BOOLEAN, can_write \in BOOLEAN,
          qk \in KeywordLists, wk \in KeywordLists :
          /\ cls' = add_scpi_cmd(cls, name, base, converter, can_query, can_write, qk, wk)
          /\ defn' = CmdDef("add_scpi_cmd", name, base, "", converter,
                            can_query, can_write, qk, wk)
    /\ UNCHANGED <<keys, last, heap, ret, renames, build, pct, node>>

\* Factory.add_cmd(target, name, cmd_type, cmd_arg, **kwargs)
AddCmd ==
    /\ defn = NoDef
    /\ \E name \in CmdNames, tc \in FactoryCmds,
          can_query \in BOOLEAN, can_write \in BOOLEAN,
          qk \in KeywordLists, wk \in KeywordLists :
          /\ cls' = add_cmd(cls, name, tc[1], tc[2], can_query, can_write, qk, wk)
          /\ defn' = CmdDef("add_cmd", name, "", tc[1], ConverterMap(tc[1], tc[2]),
                            can_query, can_write, qk, wk)
    /\ UNCHANGED <<keys, last, heap, ret, renames, build, pct, node>>

\* s.keys[k] = c
SetKey ==
    /\ last = NoCall
    /\ \E k \in KeyNames, c \in 1..MaxChannel :
          keys' = [n \in DOMAIN keys \cup {k} |-> IF n = k THEN PyInt(c) ELSE keys[n]]
    /\ UNCHANGED <<cls, defn, last, heap, ret, renames, build, pct, node>>

\* x = s.attr for a property of the class
ReadProperty ==
    /\ defn.via = "add_scpi_cmd"
    /\ last = NoCall
    /\ \E a \in DOMAIN cls, t \in QueryTransports :
          /\ cls[a].kind = "property"
          /\ last' = IF cls[a].fget = NoClosure
                     THEN Call(a, "get", NoClosure, <<>>, NoAccess)
                     ELSE Call(a, "get", cls[a].fget, <<>>,
                               InvokeQuery(cls[a].fget, <<>>, t))
    /\ UNCHANGED <<cls, defn, keys, heap, ret, renames, build, pct, node>>

\* s.attr = value for a property of the class
WriteProperty ==
    /\ defn.via = "add_scpi_cmd"
    /\ last = NoCall
    /\ \E a \in DOMAIN cls, v \in WriteValues, t \in WriteTransports :
          /\ cls[a].kind = "property"
          /\ last' = IF cls[a].fset = NoClosure
                     THEN Call(a, "set", NoClosure, <<v>>, NoAccess)
                     ELSE Call(a, "set", cls[a].fset, <<v>>,
                               InvokeWrite(cls[a].fset, <<v>>, keys, t))
    /\ UNCHANGED <<cls, defn, keys, heap, ret, renames, build, pct, node>>

\* s.get_name(*args) for a method built by _query_func
CallQueryMethod ==
    /\ defn.via = "add_scpi_cmd"
    /\ last = NoCall
    /\ \E a \in DOMAIN cls, t \in QueryTransports, args \in ArgLists(MaxArgs) :
          /\ cls[a].kind = "method"
          /\ cls[a].func.kind = "query"
          /\ cls[a].func.variant = "plain" => args = <<>>
          /\ last' = Call(a, "call", cls[a].func, args, InvokeQuery(cls[a].func, args, t))
    /\ UNCHANGED <<cls, defn, keys, heap, ret, renames, build, pct, node>>

\* s.set_name(value), s.name() or s.name_to_keyword() for a method built
\* by _write_func
CallWriteMethod ==
    /\ defn.via = "add_scpi_cmd"
    /\ last = NoCall
    /\ \E a \in DOMAIN cls, t \in WriteTransports,
          args \in {<<>>} \cup {<<v>> : v \in WriteValues} :
          /\ cls[a].kind = "method"
          /\ cls[a].func.kind = "write"
          /\ Len(args) = IF cls[a].func.variant = "value" THEN 1 ELSE 0
          /\ last' = Call(a, "call", cls[a].func, args,
                          InvokeWrite(cls[a].func, args, keys, t))
    /\ UNCHANGED <<cls, defn, keys, heap, ret, renames, build, pct, node>>

\* the call has returned or raised and the caller goes on: the instance is
\* idle again (calls are synchronous, one at a time)
Return ==
    /\ last # NoCall
    /\ last' = NoCall
    /\ UNCHANGED <<cls, defn, keys, heap, ret, renames, build, pct, node>>

Next ==
    \/ AddScpiCmd
    \/ AddCmd
    \/ SetKey
    \/ ReadProperty
    \/ WriteProperty
    \/ CallQueryMethod
    \/ CallWriteMethod
    \/ Return

Spec == Init /\ [][Next]_vars

---------------------------------------------------------------------------
(* The state machine of the subsystem instances.                           *)

\* an indexed and a plain prototype
Prototypes == {Prototype("source", TRUE), Prototype("am", FALSE)}

\* the keys a caller asks a SubSystemDict for
ChannelKeys == 0..(MaxChannel + 1)

\* the objects that are there
Alive(kinds) == {id \in 1..Len(heap) : heap[id].alive /\ heap[id].kind \in kinds}

\* Factory.add_subsystem(target, prototype=..., num_channels=..., zero_indexed=...)
AddSubsystem ==
    /\ ret = NoTCall
    /\ \E target \in Alive({"node", "instance", "dict"}), prototype \in Prototypes,
          num_channels \in 0..MaxChannel, zero_indexed \in BOOLEAN :
          /\ ~prototype.indexed => (num_channels = 1 /\ ~zero_indexed)
          /\ Len(heap) + Allocated(heap, target, prototype, num_channels) <= MaxObjects
          /\ heap' = add_subsystem(heap, target, prototype, num_channels, zero_indexed)
          /\ ret' = [TCall("add_subsystem", target, Ok(PyNone))
                        EXCEPT !.prototype = prototype, !.num_channels = num_channels,
                               !.zero_indexed = zero_indexed]
    /\ UNCHANGED <<cls, defn, keys, last, renames, build, pct, node>>

\* channels.rename_channel(old_key, new_key)
RenameChannel ==
    /\ ret = NoTCall
    /\ renames < MaxRenames
    /\ renames' = renames + 1
    /\ \E d \in Alive({"dict"}), old_key \in ChannelKeys, new_key \in ChannelKeys :
          IF old_key \in DictKeys(heap[d])
          THEN /\ heap' = rename_channel(heap, d, old_key, new_key)
               /\ ret' = [TCall("rename_channel", d, Ok(PyNone))
                             EXCEPT !.key = old_key, !.new_key = new_key]
          ELSE /\ heap' = heap
               /\ ret' = [TCall("rename_channel", d, Raise("KeyError"))
                             EXCEPT !.key = old_key, !.new_key = new_key]
    /\ UNCHANGED <<cls, defn, keys, last, build, pct, node>>

\* channels[key]
LookupChannel ==
    /\ ret = NoTCall
    /\ \E d \in Alive({"dict"}), key \in ChannelKeys :
          ret' = [TCall("getitem", d, GetItem(heap, d, key)) EXCEPT !.key = key]
    /\ UNCHANGED <<cls, defn, keys, last, heap, renames, build, pct, node>>

\* an accessor of the instance reaches for the transport:
\* self._device(), self._parent().device.query(...)
ResolveDevice ==
    /\ ret = NoTCall
    /\ \E id \in Alive({"instance"}) :
          ret' = TCall("device", id, Device(heap, id))
    /\ UNCHANGED <<cls, defn, keys, last, heap, renames, build, pct, node>>

\* an accessor of the instance reads self.keys to fill its template
ReadKeys ==
    /\ ret = NoTCall
    /\ \E id \in Alive({"instance"}) :
          ret' = TCall("keys", id, GetAttr(heap, id, "keys"))
    /\ UNCHANGED <<cls, defn, keys, last, heap, renames, build, pct, node>>

\* the caller lets go of the node and keeps one of the instances below it
DestroyParent ==
    /\ ret = NoTCall
    /\ heap[NodeId].alive
    /\ \E kept \in Alive({"instance"}) :
          /\ heap' = DelParent(heap, NodeId, kept)
          /\ ret' = TCall("del", kept, Ok(PyNone))
    /\ UNCHANGED <<cls, defn, keys, last, renames, build, pct, node>>

\* the operation has returned or raised
TreeReturn ==
    /\ ret # NoTCall
    /\ ret' = NoTCall
    /\ UNCHANGED <<cls, defn, keys, last, heap, renames, build, pct, node>>

TreeNext ==
    \/ AddSubsystem
    \/ RenameChannel
    \/ LookupChannel
    \/ ResolveDevice
    \/ ReadKeys
    \/ DestroyParent
    \/ TreeReturn

TreeSpec == Init /\ [][TreeNext]_vars
---------------------------------------------------------------------------
(* The state machine of the factory: a class built from a prototype.       *)

\* the names of the commands of a prototype
FactoryNames == {"test", "shape"}

\* the choices a prototype lists: all of them known to the device, and one
\* of them not
ListedChoices == {PyList(<<"sinusoid", "square">>), PyList(<<"sinusoid", "dc">>)}

\* the choice map of a device
DeviceChoices == PyDict(<<"sinusoid", "square", "triangle">>, <<"SIN", "SQU", "TRI">>)

\* choice_maps: none, or the device's map for the command `shape`
ChoiceMaps == {<<>>, [n \in {"shape"} |-> DeviceChoices]}

\* cmd_type and cmd_arg of a command of a prototype; converter_map has no
\* constructor for "num"
PrototypeCmds ==
    {<<"bool", CmdArg(<<>>, "")>>, <<"num", CmdArg(<<>>, "")>>}
        \cup {<<"choice", CmdArg(l, "")>> : l \in ListedChoices}

\* can_query and can_write of a command
Directions == {<<TRUE, TRUE>>, <<TRUE, FALSE>>, <<FALSE, TRUE>>}

\* query_keywords and write_keywords of a command
FactoryKeywords == {<<>>, <<"min">>}

Commands ==
    {Command(name, tc[1], tc[2], d[1], d[2], kw, kw) :
        name \in FactoryNames, tc \in PrototypeCmds, d \in Directions,
        kw \in FactoryKeywords}

\* the command lists of a prototype: up to MaxCommands commands
RECURSIVE CommandLists(_)
CommandLists(n) ==
    IF n = 0 THEN {<<>>}
    ELSE CommandLists(n - 1) \cup
         {Append(l, cmd) : l \in {m \in CommandLists(n - 1) : Len(m) = n - 1},
                           cmd \in Commands}

\* add_cmds(prototype, target, choice_maps) on a blank class, as
\* graft_subsystem and _get_new_subsystem give it
AddCmds ==
    /\ build = NoBuild
    /\ \E commands \in CommandLists(MaxCommands), choice_maps \in ChoiceMaps :
          LET built == add_cmds(BlankClass, commands, choice_maps)
          IN  /\ cls' = built.cls
              /\ build' = Build("add_cmds", commands, choice_maps, built.outcome)
    /\ UNCHANGED <<defn, keys, last, heap, ret, renames, pct, node>>

\* Factory.add_subsystem(node, prototype=..., choice_maps=..., num_channels=...)
BuildSubsystem ==
    /\ build = NoBuild
    /\ \E commands \in CommandLists(MaxCommands), choice_maps \in ChoiceMaps,
          prototype \in Prototypes :
          LET num_channels == IF prototype.indexed THEN MaxChannel ELSE 1
              r == add_subsystem_cmds(heap, NodeId, prototype, commands, choice_maps,
                                      num_channels, FALSE)
          IN  /\ heap' = r.heap
              /\ cls' = r.cls
              /\ build' = Build("add_subsystem", commands, choice_maps, r.outcome)
              /\ ret' = [TCall("add_subsystem", NodeId, r.outcome)
                            EXCEPT !.prototype = prototype,
                                   !.num_channels = num_channels]
    /\ UNCHANGED <<defn, keys, last, renames, pct, node>>

\* s.name_choices()
CallChoices ==
    /\ build # NoBuild
    /\ last = NoCall
    /\ \E a \in DOMAIN cls :
          /\ cls[a].kind = "method"
          /\ cls[a].func.kind = "choices"
          /\ last' = Call(a, "call", cls[a].func, <<>>,
                          Result(<<>>, <<>>, Ok(ChoiceKeys(cls[a].func)), "done", ""))
    /\ UNCHANGED <<cls, defn, keys, heap, ret, renames, build, pct, node>>

\* name_choices() has returned
FactoryReturn ==
    /\ build # NoBuild
    /\ last # NoCall
    /\ last' = NoCall
    /\ UNCHANGED <<cls, defn, keys, heap, ret, renames, build, pct, node>>

FactoryNext ==
    \/ AddCmds
    \/ BuildSubsystem
    \/ CallChoices
    \/ FactoryReturn

FactorySpec == Init /\ [][FactoryNext]_vars
---------------------------------------------------------------------------
(* Notions the properties below share.                                     *)

\* the directions of the compiled command that are requested and supported
QueryEnabled == defn.can_query /\ defn.converter.query # NoFunc
WriteEnabled == defn.can_write /\ defn.converter.write # NoFunc

GetName == "get_" \o defn.name
SetName == "set_" \o defn.name

\* the base accessors the class holds for the compiled command
BaseRegistered == DOMAIN cls \cap {defn.name, GetName, SetName}

IsProperty(a) == a \in DOMAIN cls /\ cls[a].kind = "property"
IsMethod(a) == a \in DOMAIN cls /\ cls[a].kind = "method"

\* an accessor function was invoked (the last call is not idle and not the
\* refusal of a direction the property does not have)
Invoked == last.op # "none" /\ last.f # NoClosure

\* the field names of a template; "" is the positional field {}
RECURSIVE FieldsFrom(_, _)
FieldsFrom(str, from) ==
    LET open == FindChar(str, "{", from)
        close == FindChar(str, "}", open)
    IN  IF open = 0 \/ close = 0 THEN {}
        ELSE {SubSeq(str, open + 1, close - 1)} \cup FieldsFrom(str, close + 1)

\* the placeholders of the invoked command that the caller's value does not fill
Placeholders(f) ==
    FieldsFrom(f.command, 1) \ (IF f.variant = "value" THEN {"value"} ELSE {})

\* the compiled command's base with its placeholders filled for the last call
FilledBase == Format(defn.base, last.args, keys)

---------------------------------------------------------------------------
(* C1 *)

\* The table of the command compiler: requested and supported directions
\* (q, w) give exactly one base accessor: a read/write property, get_<name>,
\* set_<name> or the bare method <name>.
AccessorTable ==
    CASE QueryEnabled /\ WriteEnabled ->
            /\ BaseRegistered = {defn.name}
            /\ IsProperty(defn.name)
            /\ cls[defn.name].fget # NoClosure /\ cls[defn.name].fset # NoClosure
      [] QueryEnabled /\ ~WriteEnabled ->
            BaseRegistered = {GetName} /\ IsMethod(GetName)
      [] ~QueryEnabled /\ WriteEnabled ->
            BaseRegistered = {SetName} /\ IsMethod(SetName)
      [] OTHER ->
            BaseRegistered = {defn.name} /\ IsMethod(defn.name)

\* C1 as claimed: every command compiled by add_cmd or add_scpi_cmd registers
\* exactly the one base accessor the table gives for (q, w).
C1_TableForBoth == defn # NoDef => AccessorTable

\* what add_scpi_cmd registers: one property <name> for a template without
\* placeholder whose converter has a function (getter iff q, setter iff w);
\* otherwise get_<name> iff q, and, iff can_write, set_<name> when the
\* converter has a write function and the bare <name> when it has none
ScpiAccessors ==
    IF ~HasBrace(defn.base) /\ AnyFunc(defn.converter)
    THEN /\ BaseRegistered = {defn.name}
         /\ IsProperty(defn.name)
         /\ cls[defn.name].fget # NoClosure <=> QueryEnabled
         /\ cls[defn.name].fset # NoClosure <=> WriteEnabled
    ELSE /\ BaseRegistered =
                (IF QueryEnabled THEN {GetName} ELSE {}) \cup
                (IF ~defn.can_write THEN {}
                 ELSE IF defn.converter.write # NoFunc THEN {SetName}
                 ELSE {defn.name})
         /\ \A a \in BaseRegistered : IsMethod(a)

\* C1 amended: a command compiled by SubsystemFactory.add_cmd registers
\* exactly the one base accessor of the table; add_scpi_cmd registers a
\* property for every placeholder-free command with a converter function and
\* get_/set_/bare methods per direction otherwise.
C1_BaseAccessors ==
    /\ defn.via = "add_cmd" => AccessorTable
    /\ defn.via = "add_scpi_cmd" => ScpiAccessors

\* a query-only factory command is compiled to get_<name> alone
C1_Witness ==
    /\ defn.via = "add_cmd" /\ QueryEnabled /\ ~WriteEnabled
    /\ BaseRegistered = {GetName}

---------------------------------------------------------------------------
(* C2 *)

\* C2: when write access is requested of a converter that has a query
\* function but no write function (the Error converter), no accessor that
\* sends a write is exposed for the command: no property setter, no
\* set_<name>, no bare <name>(); and assigning the accessor is refused with
\* AttributeError and no transport call.  (Stated for a command that is
\* also queried, where the table leaves get_<name> or a read-only property
\* as the only base accessor.)
C2_NoWriteForErrorConverter ==
    (/\ defn # NoDef
     /\ defn.can_query
     /\ defn.can_write
     /\ defn.converter.query # NoFunc
     /\ defn.converter.write = NoFunc)
    => /\ SetName \notin DOMAIN cls
       /\ ~IsMethod(defn.name)
       /\ IsProperty(defn.name) => cls[defn.name].fset = NoClosure
       /\ (last.op = "set" /\ last.attr = defn.name)
            => (last.outcome.err = "AttributeError" /\ last.sent = <<>>)

---------------------------------------------------------------------------
(* C3 *)

\* C3: a keyword accessor is registered only for an enabled direction: with
\* can_write false no <name>_to_<kw> exists, with can_query false no
\* <name>_<kw> exists, whatever keywords the definition lists.
C3_KeywordsOnlyForEnabledDirection ==
    defn # NoDef =>
        /\ ~defn.can_write =>
              \A i \in 1..Len(defn.write_keywords) :
                  (defn.name \o "_to_" \o defn.write_keywords[i]) \notin DOMAIN cls
        /\ ~defn.can_query =>
              \A i \in 1..Len(defn.query_keywords) :
                  (defn.name \o "_" \o defn.query_keywords[i]) \notin DOMAIN cls

---------------------------------------------------------------------------
(* C4 *)

\* C4: every base accessor hands the transport the query form base + "?"
\* for a read, the write form base + " " + converted value for a write with
\* a value, and exactly base for a bare action; base is the command with its
\* channel placeholder filled.
C4_BaseCommandForms ==
    (/\ Invoked
     /\ last.attr \in {defn.name, GetName, SetName}
     /\ last.sent # <<>>
     /\ FilledBase.ok)
    => CASE last.f.kind = "query" ->
                last.sent[1].cmd = FilledBase.s \o "?"
         [] last.args # <<>> ->
                last.sent[1].cmd =
                    FilledBase.s \o " " \o PyStr(Apply(last.f.conv, last.args[1]).val)
         [] OTHER ->
                last.sent[1].cmd = FilledBase.s

---------------------------------------------------------------------------
(* C5 *)

\* the keyword of the keyword accessor that was invoked, "" for another accessor
QueryKeywordOf(a) ==
    IF \E i \in 1..Len(defn.query_keywords) : a = defn.name \o "_" \o defn.query_keywords[i]
    THEN SubSeq(a, Len(defn.name) + 2, Len(a))
    ELSE ""
WriteKeywordOf(a) ==
    IF \E i \in 1..Len(defn.write_keywords) : a = defn.name \o "_to_" \o defn.write_keywords[i]
    THEN SubSeq(a, Len(defn.name) + 5, Len(a))
    ELSE ""

\* C5: with the placeholders of the base filled from the keys, reading
\* <name>_<kw> sends exactly base + "? " + kw and calling <name>_to_<kw>
\* sends exactly base + " " + kw, with no value and no {value} placeholder.
C5_KeywordCommandForms ==
    (/\ defn.via = "add_scpi_cmd"
     /\ Invoked
     /\ Format(defn.base, <<>>, keys).ok)
    => /\ (last.op = "get" /\ QueryKeywordOf(last.attr) # "")
            => /\ Len(last.sent) = 1
               /\ last.sent[1] = Sent("query", Format(defn.base, <<>>, keys).s
                                               \o "? " \o QueryKeywordOf(last.attr))
       /\ (last.op = "call" /\ WriteKeywordOf(last.attr) # "")
            => /\ Len(last.sent) = 1
               /\ last.sent[1] = Sent("write", Format(defn.base, <<>>, keys).s
                                               \o " " \o WriteKeywordOf(last.attr))

---------------------------------------------------------------------------
(* C6 *)

\* the invoked command with every placeholder replaced by the value of its
\* key and {value} by the converted value of the caller
FilledFromKeys ==
    LET cv == IF last.f.variant = "value" THEN Apply(last.f.conv, last.args[1])
              ELSE Ok(PyNone)
    IN  Format(last.f.command, <<>>,
               [n \in DOMAIN keys \cup {"value"} |->
                    IF n = "value" THEN cv.val ELSE keys[n]])

\* C6: an accessor, query or write, whose template has placeholders that
\* are all keys of the instance dispatches the template with each
\* placeholder replaced by the value of its key (and {value} by the
\* converted value).
C6_PlaceholdersFilledFromKeys ==
    (/\ Invoked
     /\ Placeholders(last.f) # {}
     /\ Placeholders(last.f) \subseteq DOMAIN keys
     /\ last.stage # "conversion")
    => /\ Len(last.sent) = 1
       /\ last.sent[1].cmd = FilledFromKeys.s

---------------------------------------------------------------------------
(* C7 *)

\* C7 as claimed: invoking an accessor whose template has a placeholder
\* with no key in the instance's keys fails with a substitution error and
\* calls neither query nor write of the transport.
C7_UnresolvedIsSubstitutionError ==
    (Invoked /\ ~(Placeholders(last.f) \subseteq DOMAIN keys))
    => /\ ~last.outcome.ok
       /\ last.stage = "substitution"
       /\ last.sent = <<>>

\* C7 amended: invoking an accessor whose template has a named placeholder
\* with no key in the instance's keys fails and calls neither query nor
\* write of the transport; the error is the substitution error, or, for a
\* write with a value, the conversion error when the converter rejects the
\* value first.
C7_UnresolvedNamedNeverSent ==
    (Invoked /\ ~((Placeholders(last.f) \ {""}) \subseteq DOMAIN keys))
    => /\ ~last.outcome.ok
       /\ last.sent = <<>>
       /\ \/ last.stage = "substitution"
          \/ /\ last.stage = "conversion"
             /\ last.f.kind = "write" /\ last.f.variant = "value"
             /\ ~Apply(last.f.conv, last.args[1]).ok

\* a write without value on a template whose {ch} has no key raised KeyError
C7_Witness ==
    /\ Invoked /\ last.f.kind = "write"
    /\ "ch" \in Placeholders(last.f) /\ "ch" \notin DOMAIN keys
    /\ last.outcome.err = "KeyError" /\ last.stage = "substitution"
    /\ last.sent = <<>>

---------------------------------------------------------------------------
(* C8 *)

\* the position of the first event ev of the last call, 0 when there is none
EventAt(ev) ==
    IF \E i \in 1..Len(last.events) : last.events[i] = ev
    THEN CHOOSE i \in 1..Len(last.events) :
             last.events[i] = ev /\ \A j \in 1..(i - 1) : last.events[j] # ev
    ELSE 0

\* C8: a write accessor converts before it transmits: when the write
\* converter fails, write is not called, and a write that is sent for a
\* converter comes after the conversion; a query accessor raises a
\* conversion error only after its single query has completed.
C8_ConversionBeforeTransmission ==
    Invoked =>
        /\ last.f.kind = "write" =>
              /\ last.stage = "conversion" => last.sent = <<>>
              /\ (last.f.conv # NoFunc /\ last.sent # <<>>) =>
                    (EventAt("convert") > 0 /\ EventAt("convert") < EventAt("write"))
              /\ (last.f.variant = "value" /\ ~Apply(last.f.conv, last.args[1]).ok)
                    => last.stage = "conversion"
        /\ (last.f.kind = "query" /\ last.stage = "conversion") =>
              /\ Len(last.sent) = 1 /\ last.sent[1].op = "query"
              /\ EventAt("query") > 0 /\ EventAt("query") < EventAt("convert")

\* a quantity of the wrong dimension was written: DimensionalityError, nothing sent
C8_Witness ==
    /\ Invoked /\ last.f.kind = "write"
    /\ last.stage = "conversion" /\ last.outcome.err = "DimensionalityError"
    /\ last.sent = <<>>

---------------------------------------------------------------------------
(* C9 *)

\* C9: an invocation makes at most one transport call, a query for a query
\* accessor and a write for a write or action accessor, exactly one when it
\* returns; a failure of the transport is raised to the caller after that
\* one call.
C9_AtMostOneTransportCall ==
    Invoked =>
        /\ Len(last.sent) <= 1
        /\ \A i \in 1..Len(last.sent) : last.sent[i].op = last.f.kind
        /\ last.outcome.ok => Len(last.sent) = 1
        /\ last.stage = "transport" =>
              /\ ~last.outcome.ok /\ last.outcome.err = "TransportError"
              /\ Len(last.sent) = 1

\* the transport failed during a query: the error reached the caller after one call
C9_Witness ==
    /\ Invoked /\ last.f.kind = "query"
    /\ last.stage = "transport" /\ last.outcome.err = "TransportError"
    /\ Len(last.sent) = 1

---------------------------------------------------------------------------
(* C10 *)

\* the property of a boolean command without placeholder was assigned and sent
BoolWritten ==
    /\ defn.via = "add_scpi_cmd" /\ defn.converter.query = Func("bool_int", <<>>, "")
    /\ last.op = "set" /\ last.attr = defn.name /\ last.sent # <<>>

BoolRead ==
    /\ defn.via = "add_scpi_cmd" /\ defn.converter.query = Func("bool_int", <<>>, "")
    /\ last.op = "get" /\ last.attr = defn.name /\ last.stage = "done"

\* the query half of C10: the reply "1" and any other non-zero integer
\* reply read as true, the reply "0" as false
BoolReplies ==
    BoolRead => /\ last.reply \in {"1", "4"} => last.outcome.val = PyBool(TRUE)
                /\ last.reply = "0" => last.outcome.val = PyBool(FALSE)

\* C10 as claimed: a boolean write sends exactly 1 for any truthy input and
\* exactly 0 for any falsy input, and a query returns true for the reply "1"
\* (and any non-zero integer reply) and false for the reply "0".
C10_TruthyWritesOne ==
    /\ BoolWritten =>
          last.sent[1].cmd = defn.base \o " " \o (IF Truthy(last.args[1]) THEN "1" ELSE "0")
    /\ BoolReplies

\* C10 amended: a boolean write sends int(value): 1 for True, 1 and "1",
\* 0 for False, 0 and "0" (a truthy string "0" sends 0), and another integer
\* unchanged (4 sends 4); a value that is no integer is not sent; a query
\* returns true for the reply "1" (and any non-zero integer reply) and false
\* for the reply "0".
C10_WritesIntOfValue ==
    /\ BoolWritten =>
          /\ last.args[1] \in {PyBool(TRUE), PyInt(1), PyString("1")}
                => last.sent[1].cmd = defn.base \o " 1"
          /\ last.args[1] \in {PyBool(FALSE), PyInt(0), PyString("0")}
                => last.sent[1].cmd = defn.base \o " 0"
          /\ last.args[1] = PyInt(4) => last.sent[1].cmd = defn.base \o " 4"
    /\ (/\ defn.via = "add_scpi_cmd" /\ defn.converter.query = Func("bool_int", <<>>, "")
        /\ last.op = "set" /\ last.attr = defn.name /\ last.f # NoClosure
        /\ last.args[1] \in {PyString("abc"), PyString("sinusoid"), PyString("triangle")})
          => last.sent = <<>> /\ last.outcome.err = "ValueError"
    /\ BoolReplies

\* the truthy string "0" was written to a boolean property: 0 was sent
C10_Witness ==
    BoolWritten /\ last.args[1] = PyString("0") /\ last.sent[1].cmd = defn.base \o " 0"

---------------------------------------------------------------------------
(* C11 *)

\* a value was given to the write function of a quantity command
QtyWritten ==
    /\ defn.via = "add_scpi_cmd"
    /\ Invoked /\ last.f.kind = "write" /\ last.f.variant = "value"
    /\ last.f.conv.fn = "qty_write"

\* the value is a quantity of another dimension than the command's unit
WrongDimension(v, unit_str) ==
    v.ty \in {"qty", "qtyf"} /\ UnitDim(v.s) # UnitDim(unit_str)

\* the value is a bare number
BareNumber(v) == v.ty \in {"int", "float"}

---------------------------------------------------------------------------
(* C12 *)

\* the command's converter is the choice converter over a mapping
MappingChoice ==
    /\ defn.via = "add_scpi_cmd"
    /\ defn.converter.write.fn = "choice_write"
    /\ defn.converter.write.choices.kind = "dict"

\* the mapping, its keys and its tokens
Mapping == defn.converter.write.choices
MappingKeys == {Mapping.ks[i] : i \in 1..Len(Mapping.ks)}
MappingTokens == {Mapping.vs[i] : i \in 1..Len(Mapping.vs)}
TokenOf(k) == Mapping.vs[CHOOSE i \in 1..Len(Mapping.ks) : Mapping.ks[i] = k]

\* no two keys of the mapping share a token
OneKeyPerToken ==
    \A i, j \in 1..Len(Mapping.ks) : Mapping.vs[i] = Mapping.vs[j] => i = j

ChoiceWrite(v) == Apply(defn.converter.write, v)
ChoiceQuery(v) == Apply(defn.converter.query, v)

\* write(k) is the token of k, query(t) is a key whose token is t
ChoiceBothWays ==
    /\ \A k \in MappingKeys : ChoiceWrite(PyString(k)) = Ok(PyString(TokenOf(k)))
    /\ \A t \in MappingTokens :
          /\ ChoiceQuery(PyString(t)).ok
          /\ ChoiceQuery(PyString(t)).val.s \in MappingKeys
          /\ TokenOf(ChoiceQuery(PyString(t)).val.s) = t

\* query(write(k)) = k for every key k
ChoiceRoundTrip ==
    \A k \in MappingKeys : ChoiceQuery(ChoiceWrite(PyString(k)).val) = Ok(PyString(k))

\* a written value that is no key and a reply that is no token raise
\* KeyError, and the value is not sent
ChoiceUnknownRaises ==
    /\ (Invoked /\ last.f.conv.fn = "choice_write" /\ last.f.variant = "value"
        /\ ~(last.args[1].ty = "str" /\ last.args[1].s \in MappingKeys))
          => last.outcome = Raise("KeyError") /\ last.sent = <<>>
    /\ (Invoked /\ last.f.conv.fn = "choice_query" /\ last.sent # <<>>
        /\ last.stage # "transport" /\ last.reply \notin MappingTokens)
          => last.outcome = Raise("KeyError")

\* a written key is sent as its token, a replied token is read as a key
ChoiceOnTheWire ==
    /\ (Invoked /\ last.f.conv.fn = "choice_write" /\ last.f.variant = "value"
        /\ last.args[1].ty = "str" /\ last.args[1].s \in MappingKeys
        /\ ~HasBrace(defn.base) /\ last.sent # <<>>)
          => last.sent[1].cmd = defn.base \o " " \o TokenOf(last.args[1].s)
    /\ (Invoked /\ last.f.conv.fn = "choice_query" /\ last.stage = "done")
          => /\ last.outcome.val.s \in MappingKeys
             /\ TokenOf(last.outcome.val.s) = last.reply

\* C12 as claimed: for the choice converter over a mapping, write(k) is the
\* token of k for every key, query(t) is the key whose token is t for every
\* token, query(write(k)) = k for every key k, and writing a value that is
\* no key or querying a reply that is no token raises the lookup error.
C12_ChoiceRoundTrip ==
    MappingChoice => /\ ChoiceBothWays
                     /\ ChoiceRoundTrip
                     /\ ChoiceUnknownRaises
                     /\ ChoiceOnTheWire

\* C12 amended: the same, with query(write(k)) = k for the mappings in which
\* no two keys share a token; where keys share a token, query(t) is the
\* last of them in the mapping's order.
C12_ChoiceRoundTripOneKeyPerToken ==
    MappingChoice =>
        /\ ChoiceBothWays
        /\ OneKeyPerToken => ChoiceRoundTrip
        /\ \A i \in 1..Len(Mapping.ks) :
              (\A j \in (i + 1)..Len(Mapping.ks) : Mapping.vs[j] # Mapping.vs[i])
                  => ChoiceQuery(PyString(Mapping.vs[i])) = Ok(PyString(Mapping.ks[i]))
        /\ ChoiceUnknownRaises
        /\ ChoiceOnTheWire

\* the reply SQU was read as square through the property of a command over
\* the mapping {sinusoid: SIN, square: SQU}
C12_Witness ==
    /\ MappingChoice /\ OneKeyPerToken
    /\ last.op = "get" /\ last.reply = "SQU" /\ last.outcome = Ok(PyString("square"))

---------------------------------------------------------------------------
(* C13 *)

\* the command's converter is the choice converter over a list
ListChoice ==
    /\ defn.via = "add_scpi_cmd"
    /\ defn.converter.write.fn = "choice_write"
    /\ defn.converter.write.choices.kind = "list"

ListElements ==
    {defn.converter.write.choices.vs[i] : i \in 1..Len(defn.converter.write.choices.vs)}

\* C13: when scpi_choice is given a list of choices, the instrument keyword
\* and the Python keyword are the same: write(k) = k and query(k) = k for
\* every element k of the list.
C13_ListChoicesAreTheSame ==
    ListChoice => \A k \in ListElements :
                      /\ ChoiceWrite(PyString(k)) = Ok(PyString(k))
                      /\ ChoiceQuery(PyString(k)) = Ok(PyString(k))

\* what holds of the code: an element of the list is rejected with
\* TypeError in both directions, and an index into the list is accepted
C13_ListIsIndexed ==
    ListChoice => /\ \A k \in ListElements :
                        /\ ChoiceWrite(PyString(k)) = Raise("TypeError")
                        /\ ChoiceQuery(PyString(k)) = Raise("TypeError")
                  /\ ChoiceWrite(PyInt(0)) = Ok(PyString("SIN"))

---------------------------------------------------------------------------
(* C14 *)

\* a reply was given to the query function of the error converter
ErrorRead ==
    /\ defn.via = "add_scpi_cmd"
    /\ Invoked /\ last.f.conv.fn = "parse_errors"
    /\ last.sent # <<>> /\ last.stage # "transport"

\* the parts of a reply: what stands before the first comma, and what
\* stands after it and after one blank that may follow the comma
ReplyCode(reply) == SubSeq(reply, 1, FindChar(reply, ",", 1) - 1)
ReplyQuoted(reply, blank) ==
    LET rest == SubSeq(reply, FindChar(reply, ",", 1) + 1, Len(reply))
    IN  IF blank /\ Len(rest) > 0 /\ Char(rest, 1) = " "
        THEN SubSeq(rest, 2, Len(rest)) ELSE rest

\* the reply has the form <int>,"<text>" (or <int>, "<text>" when blank)
ErrorForm(reply, blank) ==
    /\ FindChar(reply, ",", 1) > 0
    /\ IntOfStr(ReplyCode(reply)).ok
    /\ LET q == ReplyQuoted(reply, blank)
       IN  Len(q) >= 2 /\ Char(q, 1) = "\"" /\ Char(q, Len(q)) = "\""

\* the pair the reply stands for: the code, and the quoted portion without
\* its first and its last character
ErrorPair(reply, blank) ==
    LET q == ReplyQuoted(reply, blank)
    IN  PyErrTuple(IntOfStr(ReplyCode(reply)).val.i, SubSeq(q, 2, Len(q) - 1))

\* C14: the error converter parses a reply of the form <int>,"<text>", and
\* of the documented form <int>, "<text>" with a blank after the comma, into
\* the pair (code, message), the message being the quoted portion without
\* its one leading and one trailing character; only the first comma
\* separates code from message; the converter has no write function.
C14_ErrorReplyParsed ==
    /\ (ErrorRead /\ ErrorForm(last.reply, TRUE))
          => last.outcome = Ok(ErrorPair(last.reply, TRUE))
    /\ (defn.via = "add_scpi_cmd" /\ defn.converter.query.fn = "parse_errors")
          => defn.converter.write = NoFunc

\* what holds of the code: the form without blank is parsed as claimed, the
\* text keeping its commas, and there is no write function
C14_CompactReplyParsed ==
    /\ (ErrorRead /\ ErrorForm(last.reply, FALSE))
          => last.outcome = Ok(ErrorPair(last.reply, FALSE))
    /\ (defn.via = "add_scpi_cmd" /\ defn.converter.query.fn = "parse_errors")
          => defn.converter.write = NoFunc

---------------------------------------------------------------------------
(* Notions the properties of the subsystem instances share.                *)

\* the targets add_subsystem attaches to: the channels of a collection, or
\* the target itself
TargetsOf(h, target) ==
    IF h[target].kind = "dict"
    THEN {h[target].items[i][2] : i \in 1..Len(h[target].items)}
    ELSE {target}

\* the ids of n channels
ExpectedIds(n, zero_indexed) == IF zero_indexed THEN 0..(n - 1) ELSE 1..n

\* the step is a call of add_subsystem
AddSubsystemStep == ret'.op = "add_subsystem"

\* what the call of add_subsystem that the step makes attaches to t
Attached(t) == heap'[t].attrs[ret'.prototype.name]

---------------------------------------------------------------------------
(* C15 *)

\* C15: add_subsystem on an indexed prototype with num_channels = n attaches
\* a collection whose key set is exactly {1..n}, or {0..n-1} when
\* zero_indexed, each id c mapping to an instance created with channel index
\* c; looking up an id outside that set raises KeyError and creates no entry.
C15_IndexedCollection ==
    [][/\ (AddSubsystemStep /\ ret'.prototype.indexed) =>
            \A t \in TargetsOf(heap, ret'.obj) :
               /\ ret'.prototype.name \in DOMAIN heap'[t].attrs
               /\ heap'[Attached(t)].kind = "dict"
               /\ DictKeys(heap'[Attached(t)])
                     = ExpectedIds(ret'.num_channels, ret'.zero_indexed)
               /\ \A c \in DictKeys(heap'[Attached(t)]) :
                     /\ heap'[DictAt(heap'[Attached(t)], c)].kind = "instance"
                     /\ heap'[DictAt(heap'[Attached(t)], c)].channel_idx = PyInt(c)
       /\ ret'.op = "getitem" =>
            /\ heap' = heap
            /\ ret'.key \in DictKeys(heap[ret'.obj])
                  => ret'.outcome = Ok(PyRef(DictAt(heap[ret'.obj], ret'.key)))
            /\ ret'.key \notin DictKeys(heap[ret'.obj])
                  => ret'.outcome = Raise("KeyError")
      ]_vars

\* a zero-indexed collection of two channels was attached to the node, its
\* ids being 0 and 1
C15_Witness ==
    /\ ret.op = "add_subsystem" /\ ret.obj = NodeId
    /\ ret.prototype.indexed /\ ret.zero_indexed /\ ret.num_channels = 2
    /\ DictKeys(heap[heap[NodeId].attrs["source"]]) = {0, 1}

---------------------------------------------------------------------------
(* C16 *)

\* the ids of a collection are the ids of as many channels as it has,
\* counted from 0 or from 1
Contiguous(d) ==
    \E zero_indexed \in BOOLEAN : DictKeys(d) = ExpectedIds(Len(d.items), zero_indexed)

AllContiguous == \A d \in Alive({"dict"}) : Contiguous(heap[d])

\* C16 as claimed: in every reachable state, after any sequence of
\* add_subsystem and rename_channel operations, the ids of each channel
\* collection are contiguous within its configured range.
C16_AlwaysContiguous == AllContiguous

\* C16 amended: the ids of each collection are contiguous within its
\* configured range as long as rename_channel has not been called;
\* rename_channel(old, new) takes the id old away and makes new an id of the
\* collection, whatever new is.
C16_ContiguousUntilRenamed ==
    /\ renames = 0 => AllContiguous
    /\ (ret.op = "rename_channel" /\ ret.outcome.ok) =>
          /\ ret.new_key \in DictKeys(heap[ret.obj])
          /\ ret.key # ret.new_key => ret.key \notin DictKeys(heap[ret.obj])

\* channel 1 of a collection of the channels 1 and 2 was renamed to 3: the
\* ids are 2 and 3
C16_Witness ==
    /\ ret.op = "rename_channel" /\ ret.key = 1 /\ ret.new_key = 3
    /\ DictKeys(heap[ret.obj]) = {2, 3}

---------------------------------------------------------------------------
(* C17 *)

\* the channels of every collection are different objects
ChannelsDistinct ==
    \A d \in Alive({"dict"}) :
        \A i, j \in 1..Len(heap[d].items) :
            i # j => heap[d].items[i][2] # heap[d].items[j][2]

\* the step invokes an accessor of an instance (it reaches for the
\* transport, or reads the keys to fill its template)
AccessorStep == ret'.op \in {"device", "keys"}

\* C17: the channels of one indexed subsystem are distinct instances, and
\* invoking an accessor on one of them leaves the channel index, the parent
\* reference and the attributes of every instance unchanged, so that what
\* the same accessor dispatches to on another channel is the same before
\* and after.
C17_ChannelsIndependent ==
    [][/\ ChannelsDistinct'
       /\ AccessorStep =>
            /\ heap' = heap
            /\ \A j \in Alive({"instance"}) :
                  /\ Device(heap', j) = Device(heap, j)
                  /\ GetAttr(heap', j, "keys") = GetAttr(heap, j, "keys")
      ]_vars

\* an accessor was invoked on channel 1 of a collection of two channels
C17_Witness ==
    /\ ret.op = "device" /\ ret.outcome.ok
    /\ heap[ret.obj].channel_idx = PyInt(1)
    /\ \E d \in Alive({"dict"}) :
          /\ Len(heap[d].items) = 2
          /\ \E i \in 1..2 : heap[d].items[i][2] = ret.obj

---------------------------------------------------------------------------
(* C18 *)

\* the instances that what is attached to t consists of: the one instance,
\* or the channels of the collection
InstancesOf(h, a) ==
    IF h[a].kind = "dict" THEN {h[a].items[i][2] : i \in 1..Len(h[a].items)} ELSE {a}

\* C18: add_subsystem with a channel collection as target attaches one
\* separate instance (one separate collection, for an indexed prototype) to
\* every channel of the target; the parent of what is attached under channel
\* c is channel c's own instance, and what is attached under two different
\* channels are different objects.
C18_FanOut ==
    [][(AddSubsystemStep /\ heap[ret'.obj].kind = "dict") =>
          /\ \A t \in TargetsOf(heap, ret'.obj) :
                /\ ret'.prototype.name \in DOMAIN heap'[t].attrs
                /\ Attached(t) > Len(heap)
                /\ heap'[Attached(t)].kind
                      = (IF ret'.prototype.indexed THEN "dict" ELSE "instance")
                /\ \A i \in InstancesOf(heap', Attached(t)) :
                      /\ heap'[i].kind = "instance"
                      /\ heap'[i].parent = t
                      /\ Parent(heap', i) = PyRef(t)
          /\ \A t1, t2 \in TargetsOf(heap, ret'.obj) :
                t1 # t2 =>
                   /\ Attached(t1) # Attached(t2)
                   /\ InstancesOf(heap', Attached(t1))
                         \cap InstancesOf(heap', Attached(t2)) = {}
      ]_vars

\* a plain subsystem was attached to a collection of two channels: each
\* channel holds an instance of its own
C18_Witness ==
    /\ ret.op = "add_subsystem" /\ heap[ret.obj].kind = "dict"
    /\ ~ret.prototype.indexed /\ Len(heap[ret.obj].items) = 2
    /\ \A i \in 1..2 :
          heap[heap[heap[ret.obj].items[i][2]].attrs["am"]].parent
              = heap[ret.obj].items[i][2]

---------------------------------------------------------------------------
(* C19 *)

\* C19: an instance created for channel c under a target holds in its keys
\* its own channel id, merged with every key inherited from the target, so
\* that an accessor of a nested instance finds in self.keys what fills the
\* ancestor's index and its own index in a command template.
C19_KeysHoldIndices ==
    /\ \A id \in Alive({"instance"}) :
          heap[id].channel_idx # PyNone => GetAttr(heap, id, "keys").ok
    /\ ret.op = "keys" => ret.outcome.ok

\* what holds of the code: an instance built by add_subsystem has no keys
\* attribute, whatever its channel and its target
C19_NoKeys ==
    /\ \A id \in Alive({"instance"}) : GetAttr(heap, id, "keys") = Raise("AttributeError")
    /\ ret.op = "keys" => ret.outcome = Raise("AttributeError")

---------------------------------------------------------------------------
(* C20 *)

\* the number of parent references from the instance up to the node
RECURSIVE Depth(_, _)
Depth(h, id) == IF h[id].kind # "instance" THEN 0 ELSE 1 + Depth(h, h[id].parent)

\* C20: for an instance nested at any depth, resolving the device walks the
\* parent references up to the node that owns the transport and returns
\* that transport, so an accessor of a nested instance dispatches to the
\* same transport as an accessor of a top-level instance.
C20_DeviceAtAnyDepth ==
    /\ \A id \in Alive({"instance"}) : Device(heap, id) = Ok(PyRef(TransportId))
    /\ ret.op = "device" => ret.outcome = Ok(PyRef(TransportId))

\* what holds of the code: the transport is found from the instances
\* attached to the node itself, and from no instance below them
C20_DeviceAtDepthOne ==
    \A id \in Alive({"instance"}) :
        Device(heap, id) = IF Depth(heap, id) = 1 /\ heap[NodeId].alive
                           THEN Ok(PyRef(TransportId))
                           ELSE Raise("AttributeError")

---------------------------------------------------------------------------
(* C21 *)

\* the instance is there and the object its _parent points at is gone
ParentGone(id) ==
    /\ heap[id].kind = "instance"
    /\ heap[id].alive
    /\ heap[id].parent # 0
    /\ ~heap[heap[id].parent].alive

\* the back reference never keeps the parent: once the caller has let go of
\* the node, the node is gone whatever instance is still held
ParentNotKept == ret.op = "del" => ~heap[NodeId].alive /\ heap[ret.obj].alive

\* C21: after the parent of an instance has been destroyed, an accessor of
\* the instance that reaches for the transport fails with
\* ParentLifetimeError and no transport is reached.
C21_ParentLifetimeError ==
    (ret.op = "device" /\ ParentGone(ret.obj))
        => ret.outcome = Raise("ParentLifetimeError")

\* what the code does: the dead reference gives None, and None has no
\* `device`, so the accessor raises AttributeError; the parent is not kept
C21_DeadParentAttributeError ==
    /\ ParentNotKept
    /\ (ret.op = "device" /\ ParentGone(ret.obj))
           => ret.outcome = Raise("AttributeError")

C21_Reached == ret.op = "device" /\ ParentGone(ret.obj)

---------------------------------------------------------------------------
(* Notions the properties of the factory share.                            *)

\* add_cmds has been called, and it went through
Ran == build.op # "none"
BuiltOk == Ran /\ build.outcome.ok

\* two commands of the prototype have the same name
DuplicateName ==
    \E i, j \in 1..Len(build.commands) :
        i < j /\ build.commands[i].name = build.commands[j].name

\* a command of a kind converter_map has no constructor for
UnknownKind == \E i \in 1..Len(build.commands) : build.commands[i].cmd_type \notin KnownKinds

QueryOnly(cmd) == cmd.can_query /\ ~cmd.can_write
WriteOnly(cmd) == cmd.can_write /\ ~cmd.can_query

---------------------------------------------------------------------------
(* C22 *)

\* C22: building from a prototype in which two commands have the same name
\* fails at build time; the accessor of the earlier one is never silently
\* overwritten.
C22_DuplicateNameFails == (Ran /\ DuplicateName) => ~build.outcome.ok

\* what the code does: two commands of one name and of known kinds build
\* without error, and the accessor of the name is that of the later command
C22_LaterOverwrites ==
    (BuiltOk /\ Len(build.commands) = 2 /\ DuplicateName
        /\ build.commands[1].can_query /\ build.commands[1].can_write
        /\ build.commands[2].can_query /\ build.commands[2].can_write)
    => cls[build.commands[1].name] =
           add_cmds(BlankClass, Tail(build.commands), build.choice_maps)
               .cls[build.commands[1].name]

C22_Reached ==
    /\ BuiltOk /\ Len(build.commands) = 2 /\ DuplicateName
    /\ build.commands[1].cmd_type = "choice" /\ build.commands[2].cmd_type = "bool"
    /\ build.commands[1].can_query /\ build.commands[1].can_write
    /\ build.commands[2].can_query /\ build.commands[2].can_write

---------------------------------------------------------------------------
(* C23 *)

\* the prototype is a query-only and a write-only command of one name, in
\* either order
QueryAndWrite ==
    /\ BuiltOk
    /\ Len(build.commands) = 2
    /\ build.commands[1].name = build.commands[2].name
    /\ \/ QueryOnly(build.commands[1]) /\ WriteOnly(build.commands[2])
       \/ WriteOnly(build.commands[1]) /\ QueryOnly(build.commands[2])

\* C23: a query-only and a write-only definition of one name give a single
\* read/write property `name`, and no get_name and no set_name.
C23_CombinedProperty ==
    QueryAndWrite =>
        LET name == build.commands[1].name
        IN  /\ name \in DOMAIN cls
            /\ cls[name].kind = "property"
            /\ cls[name].fget # NoClosure
            /\ cls[name].fset # NoClosure
            /\ ("get_" \o name) \notin DOMAIN cls
            /\ ("set_" \o name) \notin DOMAIN cls

\* what the code does: each definition registers its own method, get_name
\* and set_name, and there is no attribute `name`
C23_TwoMethods ==
    QueryAndWrite =>
        LET name == build.commands[1].name
        IN  /\ name \notin DOMAIN cls
            /\ cls["get_" \o name].kind = "method"
            /\ cls["set_" \o name].kind = "method"

---------------------------------------------------------------------------
(* C24 *)

\* C24: building a subsystem from a prototype that names a converter kind
\* converter_map does not have fails at build time (the KeyError of the
\* lookup), before any instance is attached to the target.
C24_UnknownKindFailsUnattached ==
    (build.op = "add_subsystem" /\ UnknownKind)
    => /\ build.outcome = Raise("KeyError")
       /\ ret.outcome = Raise("KeyError")
       /\ heap = InitHeap

\* a prototype whose second command is of an unknown kind: the first one was
\* added to the class, the build raised and the node has no subsystem
C24_Witness ==
    /\ build.op = "add_subsystem"
    /\ Len(build.commands) = 2
    /\ build.commands[1].cmd_type = "bool"
    /\ build.commands[2].cmd_type = "num"
    /\ cls # BlankClass
    /\ build.outcome = Raise("KeyError")
    /\ DOMAIN heap[NodeId].attrs = {"device"}
    /\ Len(heap) = 2

---------------------------------------------------------------------------
(* C30 *)

\* the names that have a name_choices method on the class
ChoiceNames == {n \in FactoryNames : (n \o "_choices") \in DOMAIN cls}

\* the last choice command of the prototype with the name n: the one whose
\* name_choices is on the class
ChoiceCmd(n) ==
    LET at == {i \in 1..Len(build.commands) :
                  build.commands[i].name = n /\ build.commands[i].cmd_type = "choice"}
    IN  build.commands[CHOOSE i \in at : \A j \in at : j <= i]

\* the keys name_choices() returns, in order
Offered(n) == ChoiceKeys(cls[n \o "_choices"].func).vs
OfferedSet(n) == {Offered(n)[i] : i \in 1..Len(Offered(n))}

\* the write converter of the accessor of n, where n has one and no other
\* command of the prototype has the name
WriteConverter(n) ==
    IF n \in DOMAIN cls /\ cls[n].kind = "property" THEN cls[n].fset.conv
    ELSE IF ("set_" \o n) \in DOMAIN cls THEN cls["set_" \o n].func.conv
    ELSE NoFunc

\* the keys a caller may try
TriedKeys == {"sinusoid", "square", "triangle", "dc", "SIN"}

\* the keys the write converter of n accepts
Accepted(n) == {k \in TriedKeys : Apply(WriteConverter(n), PyString(k)).ok}

Writable(n) == ~DuplicateName /\ ChoiceCmd(n).can_write

\* C30: for every choice command added through add_cmds the keys of
\* name_choices() are exactly the keys the write converter accepts and
\* exactly the choices the prototype lists for the command.
C30_ChoicesAreThoseListed ==
    BuiltOk =>
        \A n \in ChoiceNames :
            /\ OfferedSet(n) = Listed(ChoiceCmd(n).cmd_arg.choices)
            /\ Writable(n) => OfferedSet(n) = Accepted(n)

\* C30 amended: the keys of name_choices() are exactly the keys the write
\* converter of the command accepts, and are those of the choices listed in
\* the prototype for which the choice map of the device has a token, in the
\* order of the choice map; a listed choice without token is not offered and
\* none outside the list is.
C30_ChoicesAreListedWithToken ==
    BuiltOk =>
        \A n \in ChoiceNames :
            LET listed == Listed(ChoiceCmd(n).cmd_arg.choices)
                map == build.choice_maps[n]
                mapped == {map.ks[i] : i \in 1..Len(map.ks)}
            IN  /\ OfferedSet(n) = listed \cap mapped
                /\ Offered(n) = SelectSeq(map.ks, LAMBDA k : k \in listed)
                /\ Writable(n) => OfferedSet(n) = Accepted(n)
                /\ (last.op = "call" /\ last.attr = n \o "_choices")
                       => last.outcome = Ok(PyList(Offered(n)))

\* shape lists sinusoid and dc, the device has no dc: shape_choices() was
\* called and returned sinusoid only, the only key a write accepts
C30_Witness ==
    /\ BuiltOk
    /\ "shape" \in ChoiceNames
    /\ Writable("shape")
    /\ ChoiceCmd("shape").cmd_arg.choices = PyList(<<"sinusoid", "dc">>)
    /\ last.op = "call" /\ last.attr = "shape_choices"
    /\ last.outcome = Ok(PyList(<<"sinusoid">>))
    /\ Accepted("shape") = {"sinusoid"}

---------------------------------------------------------------------------
(* C25 *)

\* a quantity was assigned to the property of a quantity command and was
\* converted
QtyAssigned == QtyWritten /\ last.op = "set" /\ last.stage # "conversion"

\* the property of a quantity command was read and the device replied
QtyRead ==
    /\ defn.via = "add_scpi_cmd"
    /\ Invoked /\ last.op = "get" /\ last.f.kind = "query"
    /\ last.f.conv.fn = "qty_query"
    /\ last.stage \in {"done", "conversion"}

\* a quantity in millionths of the base unit of its dimension
InBase(q) == (IF q.ty = "qty" THEN 1000 * q.i ELSE q.i) * UnitMilli(q.s)

\* q1 == q2 for two quantities
QtyEq(q1, q2) ==
    /\ q1.ty \in {"qty", "qtyf"} /\ q2.ty \in {"qty", "qtyf"}
    /\ UnitDim(q1.s) = UnitDim(q2.s)
    /\ InBase(q1) = InBase(q2)

\* the magnitude a write of the quantity q sends, as the text str.format
\* makes of it
SentMagnitude(q) == PyStr(Apply(defn.converter.write, q).val)

\* C25: writing a quantity in a prefixed unit of the command's unit sends
\* its magnitude in the command's unit (100 mHz on a Hz command sends 0.1),
\* a reply s is read as the quantity s in the command's unit ("500" as
\* 500 Hz), and reading back the magnitude a write sent gives a quantity
\* equal to the one written.
C25_QuantityRoundTrip ==
    /\ QtyAssigned =>
          LET q == last.args[1]
              back == Apply(defn.converter.query, PyString(SentMagnitude(q)))
          IN  /\ last.sent = <<Sent("write", defn.base \o " " \o SentMagnitude(q))>>
              /\ FloatOfStr(SentMagnitude(q)).val.i * UnitMilli(last.f.conv.unit)
                     = InBase(q)
              /\ q = PyQty(100, "mHz") => SentMagnitude(q) = "0.1"
              /\ back.ok
              /\ back.val.s = last.f.conv.unit
              /\ QtyEq(back.val, q)
    /\ QtyRead =>
          /\ FloatOfStr(last.reply).ok
                => last.outcome = Ok(PyQtyF(FloatOfStr(last.reply).val.i, last.f.conv.unit))
          /\ ~FloatOfStr(last.reply).ok => ~last.outcome.ok
          /\ last.reply = "500" => last.outcome = Ok(PyQtyF(500000, "Hz"))

\* 100 mHz was assigned to the property of a Hz command and 0.1 was sent
C25_Witness ==
    /\ QtyAssigned
    /\ last.args[1] = PyQty(100, "mHz")
    /\ last.f.conv.unit = "Hz"
    /\ last.sent = <<Sent("write", "cmd:sub 0.1")>>
    /\ Apply(defn.converter.query, PyString("0.1")) = Ok(PyQtyF(100, "Hz"))

\* the reply 0.1 to a read of a Hz command was read as 0.1 Hz
C25_ReadBack ==
    /\ QtyRead /\ last.reply = "0.1"
    /\ last.outcome = Ok(PyQtyF(100, "Hz"))
    /\ QtyEq(last.outcome.val, PyQty(100, "mHz"))

---------------------------------------------------------------------------
(* The percent converter as a pure function.  A reply or a value is drawn  *)
(* when the behaviour starts; a reply is converted by the query function   *)
(* and what that returned is then converted by the write function, a value *)
(* is converted by the write function.                                     *)

\* the largest reply, in tenths of a percent, and the largest value written,
\* in thousandths
MaxTenths == 200
MaxThousandths == 100

PercentReplies == {PyString(FloatStr(100 * k)) : k \in 0..MaxTenths}
PercentValues ==
    {DoubleOf(t) : t \in 0..MaxThousandths} \cup {PyInt(0), PyInt(43), PyBool(TRUE)}

PercentInit ==
    /\ cls = BlankClass
    /\ defn = NoDef
    /\ keys = <<>>
    /\ last = NoCall
    /\ heap = InitHeap
    /\ ret = NoTCall
    /\ renames = 0
    /\ build = NoBuild
    /\ node = NewNode
    /\ \E x \in PercentReplies \cup PercentValues : pct = Pct(x, "none", Ok(PyNone))

PercentQuery ==
    /\ pct.op = "none"
    /\ pct.x.ty = "str"
    /\ pct' = Pct(pct.x, "query", Apply(scpi_qty("%").query, pct.x))
    /\ UNCHANGED <<cls, defn, keys, last, heap, ret, renames, build, node>>

PercentWrite ==
    /\ pct.op = "none"
    /\ pct.x.ty # "str"
    /\ pct' = Pct(pct.x, "write", Apply(scpi_qty("%").write, pct.x))
    /\ UNCHANGED <<cls, defn, keys, last, heap, ret, renames, build, node>>

PercentWriteBack ==
    /\ pct.op = "query"
    /\ pct.out.ok
    /\ pct' = Pct(pct.x, "write_back", Apply(scpi_qty("%").write, pct.out.val))
    /\ UNCHANGED <<cls, defn, keys, last, heap, ret, renames, build, node>>

PercentNext ==
    \/ PercentQuery
    \/ PercentWrite
    \/ PercentWriteBack

PercentSpec == PercentInit /\ [][PercentNext]_vars

---------------------------------------------------------------------------
(* C26: the percent converter                                              *)

\* the doubles next to x, away from zero and towards it (x above zero)
C26_Above(x) == DoubleNext(x)
C26_Below(double) ==
    With(double, LAMBDA x :
        IF Mag(x) = "1" \o SubSeq(ZeroBits, 1, Precision - 1)
        THEN Signed(IsNeg(x), Double(SubSeq(OneBits, 1, Precision), x.i - 1))
        ELSE Signed(IsNeg(x), Double(Dec(Mag(x)), x.i)))

\* what the reply reads as a number: float(x)
C26_Read == DoubleOfValue(pct.x).val

\* query "15.0" gives 0.15, write 0.021 gives 2.1, a bare number is written
\* without a unit check (an int as the int a hundred times as large)
C26_Ratio ==
    /\ pct.op = "query" /\ pct.x = PyString("15.0") => pct.out = Ok(DoubleOf(150))
    /\ pct.op = "query" => pct.out = Ok(DoubleDiv(C26_Read, 100))
    /\ pct.op = "write" /\ pct.x = DoubleOf(21) => pct.out = Ok(DoubleOf(2100))
    /\ pct.op = "write" /\ pct.x.ty = "double" => pct.out = Ok(DoubleMul(pct.x, 100))
    /\ pct.op = "write" /\ pct.x.ty \in {"int", "bool"} => pct.out = Ok(PyInt(100 * pct.x.i))

\* C26 as stated: for the percent unit query returns reply / 100, write sends
\* value * 100, a bare number is accepted with no unit check, and writing
\* what a query returned gives the reply's number again: write(query(x)) = x
C26_PercentRoundTripExact ==
    /\ C26_Ratio
    /\ pct.op = "write_back" => pct.out = Ok(C26_Read)

\* C26 amended: for the percent unit query returns reply / 100, write sends
\* value * 100, a bare number is accepted with no unit check, each result
\* being rounded to a double; writing what a query returned gives the
\* reply's number or one of the two doubles next to it, and gives exactly
\* the reply's number for "15.0"
C26_PercentRoundTripRounded ==
    /\ C26_Ratio
    /\ pct.op = "write_back" /\ C26_Read.s = "0" => pct.out = Ok(C26_Read)
    /\ pct.op = "write_back" /\ C26_Read.s # "0" =>
           pct.out \in {Ok(C26_Read), Ok(C26_Above(C26_Read)), Ok(C26_Below(C26_Read))}
    /\ pct.op = "write_back" /\ pct.x = PyString("15.0") => pct.out = Ok(DoubleOf(15000))

\* the reply "0.9" was read as 0.009 and written back as the double above 0.9
C26_Witness ==
    /\ pct.op = "write_back"
    /\ pct.x = PyString("0.9")
    /\ pct.out = Ok(C26_Above(DoubleOf(900)))

\* a reply was written back as the double below it
C26_WrittenBelow ==
    /\ pct.op = "write_back"
    /\ C26_Read.s # "0"
    /\ pct.out = Ok(C26_Below(C26_Read))

---------------------------------------------------------------------------
(* Node (node.py): channels and their attribute names.                     *)

\* Node.channel_ids
channel_ids(specs) == [i \in 1..Len(specs) |-> specs[i][1]]

\* channel_id in self._channel_specs
HasChannel(specs, channel_id) == \E i \in 1..Len(specs) : specs[i][1] = channel_id

\* self._channel_specs[channel_id], for a channel that exists
ChannelAttributes(specs, channel_id) ==
    specs[CHOOSE i \in 1..Len(specs) : specs[i][1] = channel_id][2]

\* self._channel_specs[channel_id] = attributes
SetChannel(specs, channel_id, attributes) ==
    IF HasChannel(specs, channel_id)
    THEN [i \in 1..Len(specs) |->
             IF specs[i][1] = channel_id THEN <<channel_id, attributes>> ELSE specs[i]]
    ELSE Append(specs, <<channel_id, attributes>>)

\* x in a list of names
InList(x, list) == \E i \in 1..Len(list) : list[i] = x

\* what a method of Node leaves: _channel_specs, the outcome and the calls of
\* set_channel_attribute made
NodeResult(specs, outcome, sets) == [specs |-> specs, outcome |-> outcome, sets |-> sets]

\* add_channel that stores the attributes whether or not the id exists
add_channel_overwriting(specs, channel_id, attributes, allow_overwrite) ==
    NodeResult(SetChannel(specs, channel_id, attributes), Ok(PyNone), <<>>)

\* Node.add_channel
add_channel(specs, channel_id, attributes, allow_overwrite) ==
    IF ~allow_overwrite /\ HasChannel(specs, channel_id)
    THEN NodeResult(specs, Raise("ValueError"), <<>>)
    ELSE NodeResult(SetChannel(specs, channel_id, attributes), Ok(PyNone), <<>>)

\* Node.set_channel_attribute: the subscript raises KeyError for a channel
\* that does not exist; nothing is stored
set_channel_attribute(specs, channel_id, attr_name) ==
    IF ~HasChannel(specs, channel_id) THEN Raise("KeyError")
    ELSE IF ~InList(attr_name, ChannelAttributes(specs, channel_id))
    THEN Raise("AttributeError")
    ELSE Ok(PyNone)

\* the loop of configure_channel from the i-th keyword on, after the calls
\* in sets: it ends at the first call that raises
RECURSIVE ConfigureFrom(_, _, _, _, _)
ConfigureFrom(specs, channel_id, kwargs, i, sets) ==
    IF i > Len(kwargs) THEN NodeResult(specs, Ok(PyNone), sets)
    ELSE LET set == set_channel_attribute(specs, channel_id, kwargs[i])
         IN  IF set.ok
             THEN ConfigureFrom(specs, channel_id, kwargs, i + 1, Append(sets, kwargs[i]))
             ELSE NodeResult(specs, set, Append(sets, kwargs[i]))

\* Node.configure_channel: the list comprehension subscripts _channel_specs
\* once for each keyword, so not at all when no keyword is given
configure_channel(specs, channel_id, kwargs) ==
    IF Len(kwargs) > 0 /\ ~HasChannel(specs, channel_id)
    THEN NodeResult(specs, Raise("KeyError"), <<>>)
    ELSE IF \E i \in 1..Len(kwargs) :
                ~InList(kwargs[i], ChannelAttributes(specs, channel_id))
    THEN NodeResult(specs, Raise("AttributeError"), <<>>)
    ELSE ConfigureFrom(specs, channel_id, kwargs, 1, <<>>)

---------------------------------------------------------------------------
(* The state machine of a Node: channels are added and configured.         *)

\* the longest list of attributes of a channel and the most keywords given
\* to configure_channel
MaxAttrs == 2
MaxKwargs == 2

NodeChannelIds == {"a", "b", "c"}
AttrNames == <<"attr1", "attr2", "attr3">>
AttributeLists == {SubSeq(AttrNames, 1, n) : n \in 0..MaxAttrs}
KwargNames == {"attr1", "attr2", "nope"}

\* keyword names: distinct, in the order given
Kwargs ==
    {k \in UNION {[1..n -> KwargNames] : n \in 0..MaxKwargs} :
        \A i, j \in 1..Len(k) : i # j => k[i] # k[j]}

AddChannel ==
    \E channel_id \in NodeChannelIds, attributes \in AttributeLists,
       allow_overwrite \in BOOLEAN :
        LET res == add_channel(node.channel_specs, channel_id, attributes,
                               allow_overwrite)
        IN  /\ node' = NodeState(res.specs,
                                 NodeCall("add_channel", channel_id, attributes,
                                          allow_overwrite),
                                 res.outcome, res.sets, node.channel_specs)
            /\ UNCHANGED <<cls, defn, keys, last, heap, ret, renames, build, pct>>

ConfigureChannel ==
    \E channel_id \in NodeChannelIds, kwargs \in Kwargs :
        LET res == configure_channel(node.channel_specs, channel_id, kwargs)
        IN  /\ node' = NodeState(res.specs,
                                 NodeCall("configure_channel", channel_id, kwargs, FALSE),
                                 res.outcome, res.sets, node.channel_specs)
            /\ UNCHANGED <<cls, defn, keys, last, heap, ret, renames, build, pct>>

SetChannelAttribute ==
    \E channel_id \in NodeChannelIds, attr_name \in KwargNames :
        /\ node' = NodeState(node.channel_specs,
                             NodeCall("set_channel_attribute", channel_id,
                                      <<attr_name>>, FALSE),
                             set_channel_attribute(node.channel_specs, channel_id,
                                                   attr_name),
                             <<>>, node.channel_specs)
        /\ UNCHANGED <<cls, defn, keys, last, heap, ret, renames, build, pct>>

NodeNext ==
    \/ AddChannel
    \/ ConfigureChannel
    \/ SetChannelAttribute

NodeSpec == Init /\ [][NodeNext]_vars

---------------------------------------------------------------------------
(* C27: Node.add_channel                                                   *)

C27_Added == node.call.op = "add_channel"
C27_Existed == HasChannel(node.before, node.call.channel_id)

\* every channel but the one the call names is as it was before the call
C27_OthersUnchanged ==
    \A id \in NodeChannelIds \ {node.call.channel_id} :
        /\ HasChannel(node.channel_specs, id) <=> HasChannel(node.before, id)
        /\ HasChannel(node.before, id) =>
               ChannelAttributes(node.channel_specs, id) = ChannelAttributes(node.before, id)

\* C27: add_channel with an id that exists and allow_overwrite false raises
\* ValueError and leaves the channel ids and the channel's attribute list
\* unchanged; with allow_overwrite true it replaces that channel's
\* attribute list; with a new id it adds the channel and leaves every
\* existing channel unchanged
C27_AddChannel ==
    C27_Added =>
        /\ C27_Existed /\ ~node.call.allow_overwrite =>
               /\ node.outcome = Raise("ValueError")
               /\ channel_ids(node.channel_specs) = channel_ids(node.before)
               /\ node.channel_specs = node.before
        /\ C27_Existed /\ node.call.allow_overwrite =>
               /\ node.outcome = Ok(PyNone)
               /\ channel_ids(node.channel_specs) = channel_ids(node.before)
               /\ ChannelAttributes(node.channel_specs, node.call.channel_id)
                      = node.call.given
               /\ C27_OthersUnchanged
        /\ ~C27_Existed =>
               /\ node.outcome = Ok(PyNone)
               /\ channel_ids(node.channel_specs)
                      = Append(channel_ids(node.before), node.call.channel_id)
               /\ ChannelAttributes(node.channel_specs, node.call.channel_id)
                      = node.call.given
               /\ C27_OthersUnchanged

\* a channel with attributes was added again with other attributes and
\* without allow_overwrite, next to another channel
C27_Witness ==
    /\ C27_Added
    /\ C27_Existed
    /\ ~node.call.allow_overwrite
    /\ node.call.given # ChannelAttributes(node.before, node.call.channel_id)
    /\ Len(node.before) > 1
    /\ node.outcome = Raise("ValueError")

\* a channel's attribute list was replaced by a different one
C27_Replaced ==
    /\ C27_Added
    /\ C27_Existed
    /\ node.call.allow_overwrite
    /\ node.call.given # ChannelAttributes(node.before, node.call.channel_id)
    /\ ChannelAttributes(node.channel_specs, node.call.channel_id) = node.call.given

---------------------------------------------------------------------------
(* C28: Node.configure_channel                                             *)

C28_Configured == node.call.op = "configure_channel"
C28_Known == HasChannel(node.before, node.call.channel_id)
C28_AllValid ==
    \A i \in 1..Len(node.call.given) :
        InList(node.call.given[i], ChannelAttributes(node.before, node.call.channel_id))

\* the part of C28 about a channel that exists: a name that is not an
\* attribute gives AttributeError and no call of set_channel_attribute;
\* valid names give one call for each, in the order given
C28_AllOrNothing ==
    C28_Configured /\ C28_Known =>
        /\ node.channel_specs = node.before
        /\ ~C28_AllValid => node.outcome = Raise("AttributeError") /\ node.sets = <<>>
        /\ C28_AllValid => node.outcome = Ok(PyNone) /\ node.sets = node.call.given

\* C28: configure_channel is all-or-nothing: a name that is not an
\* attribute of the channel raises AttributeError before
\* set_channel_attribute is called for any attribute; if all names are
\* valid, set_channel_attribute is called exactly once per given attribute;
\* an unknown channel id raises KeyError
C28_ConfigureChannel ==
    /\ C28_AllOrNothing
    /\ C28_Configured /\ ~C28_Known => node.outcome = Raise("KeyError")

\* an unknown channel id with at least one keyword raises KeyError, and
\* with no keyword configure_channel returns None
C28_UnknownChannel ==
    C28_Configured /\ ~C28_Known =>
        /\ node.sets = <<>>
        /\ node.outcome = IF Len(node.call.given) > 0 THEN Raise("KeyError")
                          ELSE Ok(PyNone)

\* configure_channel returned for a channel that does not exist
C28_Reached ==
    /\ C28_Configured
    /\ ~C28_Known
    /\ node.outcome = Ok(PyNone)

\* set_channel_attribute was called for each of two valid names
C28_TwoSet ==
    /\ C28_Configured
    /\ C28_Known
    /\ Len(node.sets) = 2

---------------------------------------------------------------------------
(* C29: the channel index of the instances of a collection                 *)

\* the instance under each id of the collection d has that id as channel_idx
C29_IndexedByKey(d) ==
    \A i \in 1..Len(heap[d].items) :
        heap[heap[d].items[i][2]].channel_idx = PyInt(heap[d].items[i][1])

\* C29: in every reachable state, each id k of a channel collection maps to
\* an instance whose channel_idx equals k, including after rename_channel
\* has moved an instance from one id to another
C29_IndexIsKey == \A d \in Alive({"dict"}) : C29_IndexedByKey(d)

\* what does hold: each id maps to an instance with that id as channel_idx
\* until rename_channel is called, and rename_channel(old, new) leaves the
\* channel_idx of the instance it moves as it was
C29_IndexIsKeyUntilRenamed ==
    /\ renames = 0 => \A d \in Alive({"dict"}) : C29_IndexedByKey(d)
    /\ (ret.op = "rename_channel" /\ ret.outcome.ok) =>
          heap[DictAt(heap[ret.obj], ret.new_key)].channel_idx = PyInt(ret.key)

\* channel 1 was renamed to 3 and the instance under the id 3 has the
\* channel_idx 1
C29_Reached ==
    /\ ret.op = "rename_channel" /\ ret.outcome.ok
    /\ ret.key = 1 /\ ret.new_key = 3
    /\ heap[DictAt(heap[ret.obj], 3)].channel_idx = PyInt(1)

====
